---- MODULE Spec2Model ----
(***************************************************************************)
(* Authorization and dependency-aware deletion of the CRM backend.         *)
(*                                                                         *)
(* The state is the content of the PostgreSQL tables the handlers read and *)
(* write (users, role_permissions, companies, customers, leads), the       *)
(* database clock behind NOW(), and the last request with its response.    *)
(* Under Spec one action is one HTTP request run to its response:          *)
(* authenticate, the route's checkPermission middleware, the controller,   *)
(* the errorHandler. FaultSpec is the same server in front of a database   *)
(* that rejects a statement of a transaction. LifeSpec adds the creates    *)
(* and the user administration to the updates and deletes, over databases  *)
(* that hold soft-deleted rows. Under ConcSpec requests overlap and one    *)
(* action is one statement of one request; RaceSpec is ConcSpec's server   *)
(* with deletes, creates and deleteUser meeting.                           *)
(***************************************************************************)
EXTENDS Integers, Sequences, FiniteSets, TLC

VARIABLES
    users,            \* users table: id -> [role, email, deletedAt]
    rolePermissions,  \* roles x role_permissions x permissions: role -> set of <<resource, action>>
    companies,        \* companies table: id -> [createdBy, deletedAt]
    customers,        \* customers table: id -> [createdBy, companyId, deletedAt]
    leads,            \* leads table: id -> [createdBy, customerId, deletedAt]
    now,              \* value NOW() returns to the next request
    req,              \* the last request: [op, actor, id, force, reassignTo, fk, failAt]
    res,              \* the response sent for it: [status, message, errors, reported, rows]
    sqlLog,           \* the statements the last request executed, in order
    pre,              \* the three entity tables as they were when the last request arrived
    inflight          \* the requests being served concurrently, each at its next statement

vars == <<users, rolePermissions, companies, customers, leads, now, req, res, sqlLog, pre,
          inflight>>

(***************************************************************************)
(* Bounds of the model and constants of the program.                       *)
(***************************************************************************)
\* deleted_at IS NULL: timestamps are the integers >= 1.
NULL == 0

MaxCompanies == 2
MaxCustomers == 6
MaxLeads == 6
MaxRequests == 1
MaxInFlight == 2

\* LIMIT 5 of the blocked-delete sample queries.
SampleLimit == 5

Roles == {"super_admin", "sales", "telecaller"}
Resources == {"companies", "customers", "leads"}
Actions == {"create", "read", "update", "delete"}

\* Values of the ?force= query parameter ("undefined": the parameter is absent).
ForceValues == {"undefined", "true", "false"}

\* 0 stands for an absent (undefined) id parameter or body field.
Absent == 0

(***************************************************************************)
(* The database: the three entity tables travel together as one record.    *)
(***************************************************************************)
Db == [companies |-> companies, customers |-> customers, leads |-> leads]

\* Mutant: the lookup forgets "AND deleted_at IS NULL".
CompanyExists(db, id) ==
    id \in DOMAIN db.companies

\* SELECT * FROM companies WHERE id = $1 AND deleted_at IS NULL
ActiveCompany(db, id) ==
    id \in DOMAIN db.companies /\ db.companies[id].deletedAt = NULL

\* Mutant: the lookup forgets "AND deleted_at IS NULL".
CustomerExists(db, id) ==
    id \in DOMAIN db.customers

\* SELECT * FROM customers WHERE id = $1 AND deleted_at IS NULL
ActiveCustomer(db, id) ==
    id \in DOMAIN db.customers /\ db.customers[id].deletedAt = NULL

\* SELECT * FROM leads WHERE id = $1 AND deleted_at IS NULL
ActiveLead(db, id) ==
    id \in DOMAIN db.leads /\ db.leads[id].deletedAt = NULL

\* ... FROM customers WHERE company_id = $1 AND deleted_at IS NULL
ActiveCustomersOf(db, id) ==
    {c \in DOMAIN db.customers :
        db.customers[c].companyId = id /\ db.customers[c].deletedAt = NULL}

\* Mutant: the dependents query forgets "AND deleted_at IS NULL".
AllLeadsOf(db, id) ==
    {l \in DOMAIN db.leads : db.leads[l].customerId = id}

\* ... FROM leads WHERE customer_id = $1 AND deleted_at IS NULL
ActiveLeadsOf(db, id) ==
    {l \in DOMAIN db.leads :
        db.leads[l].customerId = id /\ db.leads[l].deletedAt = NULL}

\* UPDATE companies SET deleted_at = NOW() WHERE id = $1
SoftDeleteCompany(db, id, t) ==
    [db EXCEPT !.companies =
        [c \in DOMAIN db.companies |->
            IF c = id THEN [db.companies[c] EXCEPT !.deletedAt = t]
            ELSE db.companies[c]]]

\* UPDATE customers SET deleted_at = NOW() WHERE id = $1
SoftDeleteCustomer(db, id, t) ==
    [db EXCEPT !.customers =
        [c \in DOMAIN db.customers |->
            IF c = id THEN [db.customers[c] EXCEPT !.deletedAt = t]
            ELSE db.customers[c]]]

\* UPDATE leads SET deleted_at = NOW() WHERE id = $1
SoftDeleteLead(db, id, t) ==
    [db EXCEPT !.leads =
        [l \in DOMAIN db.leads |->
            IF l = id THEN [db.leads[l] EXCEPT !.deletedAt = t]
            ELSE db.leads[l]]]

\* Mutant: the reassignment forgets "AND deleted_at IS NULL".
ReassignCustomersDeletedToo(db, to, from) ==
    [db EXCEPT !.customers =
        [c \in DOMAIN db.customers |->
            IF db.customers[c].companyId = from
            THEN [db.customers[c] EXCEPT !.companyId = to]
            ELSE db.customers[c]]]

\* UPDATE customers SET company_id = $1 WHERE company_id = $2 AND deleted_at IS NULL
ReassignCustomers(db, to, from) ==
    [db EXCEPT !.customers =
        [c \in DOMAIN db.customers |->
            IF db.customers[c].companyId = from /\ db.customers[c].deletedAt = NULL
            THEN [db.customers[c] EXCEPT !.companyId = to]
            ELSE db.customers[c]]]

\* UPDATE leads SET customer_id = $1 WHERE customer_id = $2 AND deleted_at IS NULL
ReassignLeads(db, to, from) ==
    [db EXCEPT !.leads =
        [l \in DOMAIN db.leads |->
            IF db.leads[l].customerId = from /\ db.leads[l].deletedAt = NULL
            THEN [db.leads[l] EXCEPT !.customerId = to]
            ELSE db.leads[l]]]

\* Mutant: the cascade goes from BEGIN to the customers, without the leads.
LeadsOfCompanyLeftActive(db, id, t) ==
    db

\* UPDATE leads SET deleted_at = NOW() WHERE customer_id IN
\*   (SELECT id FROM customers WHERE company_id = $1 AND deleted_at IS NULL)
\* The outer statement has no deleted_at filter of its own.
SoftDeleteLeadsOfCompany(db, id, t) ==
    [db EXCEPT !.leads =
        [l \in DOMAIN db.leads |->
            IF db.leads[l].customerId \in ActiveCustomersOf(db, id)
            THEN [db.leads[l] EXCEPT !.deletedAt = t]
            ELSE db.leads[l]]]

\* UPDATE customers SET deleted_at = NOW() WHERE company_id = $1 AND deleted_at IS NULL
SoftDeleteCustomersOfCompany(db, id, t) ==
    [db EXCEPT !.customers =
        [c \in DOMAIN db.customers |->
            IF db.customers[c].companyId = id /\ db.customers[c].deletedAt = NULL
            THEN [db.customers[c] EXCEPT !.deletedAt = t]
            ELSE db.customers[c]]]

\* Mutant: the cascade forgets "customer_id = $1".
SoftDeleteLeadsOfAnyCustomer(db, id, t) ==
    [db EXCEPT !.leads =
        [l \in DOMAIN db.leads |->
            IF db.leads[l].deletedAt = NULL
            THEN [db.leads[l] EXCEPT !.deletedAt = t]
            ELSE db.leads[l]]]

\* UPDATE leads SET deleted_at = NOW() WHERE customer_id = $1 AND deleted_at IS NULL
SoftDeleteLeadsOfCustomer(db, id, t) ==
    [db EXCEPT !.leads =
        [l \in DOMAIN db.leads |->
            IF db.leads[l].customerId = id /\ db.leads[l].deletedAt = NULL
            THEN [db.leads[l] EXCEPT !.deletedAt = t]
            ELSE db.leads[l]]]

\* Mutant: the sample query has no LIMIT.
LimitChoicesUnlimited(rows) ==
    {rows}

\* The rows a "SELECT ... LIMIT 5" without ORDER BY may return: any
\* min(N, 5) of the N matching rows.
LimitChoices(rows) ==
    {s \in SUBSET rows :
        Cardinality(s) = IF Cardinality(rows) < SampleLimit
                         THEN Cardinality(rows) ELSE SampleLimit}

(***************************************************************************)
(* What a handler hands back: the tables it leaves, the AppError it threw  *)
(* ("ok" when it answered with formatSuccess), the payload it attached,    *)
(* the count its success message reports, the rows it returned and the     *)
(* statements it ran.                                                      *)
(***************************************************************************)
NoPayload == [total |-> 0, sample |-> {}, solutions |-> {}]

Ok(db, reported, log) ==
    [db |-> db, type |-> "ok", errors |-> NoPayload, reported |-> reported,
     rows |-> {}, log |-> log]

\* formatSuccess({ companies: result.rows, ... }): the ids of the rows returned.
OkRows(db, rows, log) ==
    [db |-> db, type |-> "ok", errors |-> NoPayload, reported |-> 0,
     rows |-> rows, log |-> log]

\* formatSuccess(data, '... created successfully', 201)
Created(db, log) ==
    [db |-> db, type |-> "created", errors |-> NoPayload, reported |-> 0,
     rows |-> {}, log |-> log]

\* throw new AppError(message, type)
Throw(db, type, log) ==
    [db |-> db, type |-> type, errors |-> NoPayload, reported |-> 0,
     rows |-> {}, log |-> log]

\* Mutant: the blocked delete is thrown with a type errorHandler does not know.
ThrowBlockedConflict(db, total, sample, log) ==
    [db |-> db, type |-> "conflict",
     errors |-> [total |-> total, sample |-> sample,
                 solutions |-> {"force=true", "force=true&reassignTo=X"}],
     reported |-> 0, rows |-> {}, log |-> log]

\* throw new AppError(errorMessage, 'validation', additionalInfo)
ThrowBlocked(db, total, sample, log) ==
    [db |-> db, type |-> "validation",
     errors |-> [total |-> total, sample |-> sample,
                 solutions |-> {"force=true", "force=true&reassignTo=X"}],
     reported |-> 0, rows |-> {}, log |-> log]

\* errorHandler: the HTTP status chosen from err.type.
StatusOf(type) ==
    CASE type = "ok" -> 200
      [] type = "created" -> 201
      [] type = "validation" -> 400
      [] type = "authentication" -> 401
      [] type = "authorization" -> 403
      [] type = "not_found" -> 404
      [] OTHER -> 500

\* errorHandler: the message chosen from err.type and err.message. An AppError
\* of type validation is answered 'Validation error'; any other error is
\* answered with its own message, which the model names by the error's kind.
MessageOf(type) ==
    IF type = "validation" THEN "Validation error" ELSE type

\* errorHandler / formatSuccess: the response that leaves the server.
errorHandler(r) ==
    [status |-> StatusOf(r.type), message |-> MessageOf(r.type),
     errors |-> r.errors, reported |-> r.reported, rows |-> r.rows]

(***************************************************************************)
(* Authentication and authorization.                                       *)
(***************************************************************************)
\* The user row joined with its role: found only when not soft-deleted.
UserFound(uid) ==
    uid \in DOMAIN users /\ users[uid].deletedAt = NULL

\* req.user: permissions is an object keyed by the resources the role has at
\* least one grant for; every other key is undefined.
authenticate(uid) ==
    LET role == users[uid].role
        granted == rolePermissions[role]
    IN [id |-> uid, role |-> role,
        permissions |->
            [r \in {g[1] : g \in granted} |-> {g[2] : g \in {h \in granted : h[1] = r}}]]

\* Mutant: the middleware without its super_admin bypass.
checkPermissionNoBypass(user, resource, action) ==
    /\ resource \in DOMAIN user.permissions
    /\ action \in user.permissions[resource]

\* Mutant: the middleware looks the user's role and its grants up again
\* instead of reading req.user.
checkPermissionFresh(user, resource, action) ==
    \/ users[user.id].role = "super_admin"
    \/ <<resource, action>> \in rolePermissions[users[user.id].role]

\* Route middleware: hasPermission, with the super_admin bypass.
checkPermission(user, resource, action) ==
    \/ user.role = "super_admin"
    \/ /\ resource \in DOMAIN user.permissions
       /\ action \in user.permissions[resource]

\* The check every get-by-id, update and delete handler repeats inline:
\*   if (role !== 'super_admin' && row.created_by !== req.user.id)
\*     if (!req.user.permissions.<resource>.includes(action)) throw authorization
\* Reading .includes of an undefined key is a TypeError (a plain Error).
ownerCheck(user, createdBy, resource, action) ==
    IF user.role # "super_admin" /\ createdBy # user.id
    THEN IF resource \notin DOMAIN user.permissions THEN "TypeError"
         ELSE IF action \notin user.permissions[resource] THEN "authorization"
         ELSE "pass"
    ELSE "pass"

\* Mutant: the route is registered without the checkPermission middleware.
RouteNoMiddleware(user, resource, action, handled, db) ==
    handled

\* Mutant: the permission is checked once the handler has done its work.
RouteHandlerFirst(user, resource, action, handled, db) ==
    IF checkPermission(user, resource, action)
    THEN handled
    ELSE [handled EXCEPT !.type = "authorization", !.errors = NoPayload, !.reported = 0]

\* router.<verb>(path, validators, checkPermission(resource, action), handler):
\* the handler runs only when the middleware called next() without an error.
Route(user, resource, action, handled, db) ==
    IF checkPermission(user, resource, action)
    THEN handled
    ELSE Throw(db, "authorization", <<>>)

(***************************************************************************)
(* const client = await db.pool.connect();                                 *)
(* try { BEGIN; ...; COMMIT; res.json(formatSuccess) }                     *)
(* catch (error) { ROLLBACK; throw error } finally { client.release() }    *)
(*                                                                         *)
(* statements[i] is the i-th statement sent on the client, BEGIN and       *)
(* COMMIT included, and after[i] the tables the transaction sees once it   *)
(* has run. failAt is the statement the database rejects (0: none).        *)
(***************************************************************************)
\* Mutant: the catch block rethrows without ROLLBACK, and what the
\* transaction wrote before the failure stays.
TransactionNoRollback(db, statements, after, failAt, reported, log) ==
    IF failAt \in 1..Len(statements)
    THEN Throw(IF failAt = 1 THEN db ELSE after[failAt - 1], "DatabaseError",
               log \o SubSeq(statements, 1, failAt))
    ELSE Ok(after[Len(statements)], reported, log \o statements)

Transaction(db, statements, after, failAt, reported, log) ==
    IF failAt \in 1..Len(statements)
    THEN Throw(db, "DatabaseError",
               Append(log \o SubSeq(statements, 1, failAt), "ROLLBACK"))
    ELSE Ok(after[Len(statements)], reported, log \o statements)

(***************************************************************************)
(* deleteCompany                                                           *)
(***************************************************************************)
deleteCompany(user, db, id, force, reassignTo, sample, t, failAt) ==
    LET log0 == <<"SELECT company">>
        log1 == Append(log0, "COUNT customers")
        customerCount == Cardinality(ActiveCustomersOf(db, id))
        moved == ReassignCustomers(db, reassignTo, id)
        noLeads == SoftDeleteLeadsOfCompany(db, id, t)
        noCustomers == SoftDeleteCustomersOfCompany(noLeads, id, t)
    IN
    IF ~ActiveCompany(db, id) THEN Throw(db, "not_found", log0)
    ELSE IF ownerCheck(user, db.companies[id].createdBy, "companies", "delete") # "pass"
    THEN Throw(db, ownerCheck(user, db.companies[id].createdBy, "companies", "delete"), log0)
    ELSE IF customerCount > 0
    THEN IF force = "true"
         THEN IF reassignTo # Absent
              THEN IF ~ActiveCompany(db, reassignTo)
                   THEN Throw(db, "validation", Append(log1, "SELECT target company"))
                   ELSE Transaction(db,
                           <<"BEGIN", "UPDATE customers SET company_id",
                             "UPDATE companies SET deleted_at", "COMMIT">>,
                           <<db, moved, SoftDeleteCompany(moved, id, t),
                             SoftDeleteCompany(moved, id, t)>>,
                           failAt, customerCount,
                           Append(log1, "SELECT target company"))
              ELSE Transaction(db,
                      <<"BEGIN", "UPDATE leads SET deleted_at",
                        "UPDATE customers SET deleted_at",
                        "UPDATE companies SET deleted_at", "COMMIT">>,
                      <<db, noLeads, noCustomers, SoftDeleteCompany(noCustomers, id, t),
                        SoftDeleteCompany(noCustomers, id, t)>>,
                      failAt, customerCount, log1)
         ELSE ThrowBlocked(db, customerCount, sample,
                           Append(log1, "SELECT customers LIMIT"))
    ELSE Ok(SoftDeleteCompany(db, id, t), 0,
            Append(log1, "UPDATE companies SET deleted_at"))

(***************************************************************************)
(* deleteCustomer                                                          *)
(***************************************************************************)
deleteCustomer(user, db, id, force, reassignTo, sample, t, failAt) ==
    LET log0 == <<"SELECT customer">>
        log1 == Append(log0, "COUNT leads")
        leadCount == Cardinality(ActiveLeadsOf(db, id))
        moved == ReassignLeads(db, reassignTo, id)
        noLeads == SoftDeleteLeadsOfCustomer(db, id, t)
    IN
    IF ~ActiveCustomer(db, id) THEN Throw(db, "not_found", log0)
    ELSE IF ownerCheck(user, db.customers[id].createdBy, "customers", "delete") # "pass"
    THEN Throw(db, ownerCheck(user, db.customers[id].createdBy, "customers", "delete"), log0)
    ELSE IF leadCount > 0
    THEN IF force = "true"
         THEN IF reassignTo # Absent
              THEN IF ~ActiveCustomer(db, reassignTo)
                   THEN Throw(db, "validation", Append(log1, "SELECT target customer"))
                   ELSE Transaction(db,
                           <<"BEGIN", "UPDATE leads SET customer_id",
                             "UPDATE customers SET deleted_at", "COMMIT">>,
                           <<db, moved, SoftDeleteCustomer(moved, id, t),
                             SoftDeleteCustomer(moved, id, t)>>,
                           failAt, leadCount,
                           Append(log1, "SELECT target customer"))
              ELSE Transaction(db,
                      <<"BEGIN", "UPDATE leads SET deleted_at",
                        "UPDATE customers SET deleted_at", "COMMIT">>,
                      <<db, noLeads, SoftDeleteCustomer(noLeads, id, t),
                        SoftDeleteCustomer(noLeads, id, t)>>,
                      failAt, leadCount, log1)
         ELSE ThrowBlocked(db, leadCount, sample, Append(log1, "SELECT leads LIMIT"))
    ELSE Ok(SoftDeleteCustomer(db, id, t), 0,
            Append(log1, "UPDATE customers SET deleted_at"))

(***************************************************************************)
(* deleteLead                                                              *)
(***************************************************************************)
deleteLead(user, db, id, t) ==
    LET log0 == <<"SELECT lead">>
    IN
    IF ~ActiveLead(db, id) THEN Throw(db, "not_found", log0)
    ELSE IF ownerCheck(user, db.leads[id].createdBy, "leads", "delete") # "pass"
    THEN Throw(db, ownerCheck(user, db.leads[id].createdBy, "leads", "delete"), log0)
    ELSE Ok(SoftDeleteLead(db, id, t), 0, Append(log0, "UPDATE leads SET deleted_at"))

(***************************************************************************)
(* getCompanyById, getCustomerById, getLeadById                            *)
(***************************************************************************)
getCompanyById(user, db, id) ==
    LET log0 == <<"SELECT company">>
    IN
    IF ~ActiveCompany(db, id) THEN Throw(db, "not_found", log0)
    ELSE IF ownerCheck(user, db.companies[id].createdBy, "companies", "read") # "pass"
    THEN Throw(db, ownerCheck(user, db.companies[id].createdBy, "companies", "read"), log0)
    ELSE Ok(db, 0, log0)

\* customers c JOIN companies co ON c.company_id = co.id WHERE c.deleted_at IS NULL
getCustomerById(user, db, id) ==
    LET log0 == <<"SELECT customer JOIN company">>
    IN
    IF ~(ActiveCustomer(db, id) /\ db.customers[id].companyId \in DOMAIN db.companies)
    THEN Throw(db, "not_found", log0)
    ELSE IF ownerCheck(user, db.customers[id].createdBy, "customers", "read") # "pass"
    THEN Throw(db, ownerCheck(user, db.customers[id].createdBy, "customers", "read"), log0)
    ELSE Ok(db, 0, log0)

\* leads l JOIN customers c ON ... JOIN companies co ON ... WHERE l.deleted_at IS NULL
getLeadById(user, db, id) ==
    LET log0 == <<"SELECT lead JOIN customer JOIN company">>
    IN
    IF ~(/\ ActiveLead(db, id)
         /\ db.leads[id].customerId \in DOMAIN db.customers
         /\ db.customers[db.leads[id].customerId].companyId \in DOMAIN db.companies)
    THEN Throw(db, "not_found", log0)
    ELSE IF ownerCheck(user, db.leads[id].createdBy, "leads", "read") # "pass"
    THEN Throw(db, ownerCheck(user, db.leads[id].createdBy, "leads", "read"), log0)
    ELSE Ok(db, 0, log0)

(***************************************************************************)
(* getAllCompanies, getAllCustomers, getAllLeads, getCompanyCustomers      *)
(* The tables of the model fit the first page (LIMIT 10 by default).       *)
(***************************************************************************)
\* The filter every list adds for an actor that is not super_admin:
\*   AND created_by = $n
VisibleTo(user, createdBy) ==
    user.role = "super_admin" \/ createdBy = user.id

\* FROM companies WHERE deleted_at IS NULL
getAllCompanies(user, db) ==
    OkRows(db,
           {c \in DOMAIN db.companies :
               /\ db.companies[c].deletedAt = NULL
               /\ VisibleTo(user, db.companies[c].createdBy)},
           <<"COUNT companies", "SELECT companies">>)

\* FROM customers c JOIN companies co ON c.company_id = co.id
\* WHERE c.deleted_at IS NULL
getAllCustomers(user, db) ==
    OkRows(db,
           {c \in DOMAIN db.customers :
               /\ db.customers[c].deletedAt = NULL
               /\ db.customers[c].companyId \in DOMAIN db.companies
               /\ VisibleTo(user, db.customers[c].createdBy)},
           <<"COUNT customers", "SELECT customers">>)

\* FROM leads l JOIN customers c ON ... JOIN companies co ON ...
\* WHERE l.deleted_at IS NULL
getAllLeads(user, db) ==
    OkRows(db,
           {l \in DOMAIN db.leads :
               /\ db.leads[l].deletedAt = NULL
               /\ db.leads[l].customerId \in DOMAIN db.customers
               /\ db.customers[db.leads[l].customerId].companyId \in DOMAIN db.companies
               /\ VisibleTo(user, db.leads[l].createdBy)},
           <<"COUNT leads", "SELECT leads">>)

\* The company must be active; its active customers are returned to any
\* actor the route admits.
getCompanyCustomers(user, db, id) ==
    IF ~ActiveCompany(db, id) THEN Throw(db, "not_found", <<"SELECT company">>)
    ELSE OkRows(db, ActiveCustomersOf(db, id), <<"SELECT company", "SELECT customers">>)

(***************************************************************************)
(* updateCompany, updateCustomer, updateLead                               *)
(* Of the columns an update may set, the model keeps the foreign keys.     *)
(***************************************************************************)
updateCompany(user, db, id) ==
    LET log0 == <<"SELECT company">>
    IN
    IF ~ActiveCompany(db, id) THEN Throw(db, "not_found", log0)
    ELSE IF ownerCheck(user, db.companies[id].createdBy, "companies", "update") # "pass"
    THEN Throw(db, ownerCheck(user, db.companies[id].createdBy, "companies", "update"), log0)
    ELSE Ok(db, 0, Append(log0, "UPDATE companies SET fields"))

\* UPDATE customers SET company_id = $n WHERE id = $m, under
\* company_id INTEGER REFERENCES companies(id).
updateCustomer(user, db, id, companyId) ==
    LET log0 == <<"SELECT customer">>
        log1 == Append(log0, "UPDATE customers SET fields")
    IN
    IF ~ActiveCustomer(db, id) THEN Throw(db, "not_found", log0)
    ELSE IF ownerCheck(user, db.customers[id].createdBy, "customers", "update") # "pass"
    THEN Throw(db, ownerCheck(user, db.customers[id].createdBy, "customers", "update"), log0)
    ELSE IF companyId = Absent THEN Ok(db, 0, log1)
    ELSE IF companyId \notin DOMAIN db.companies THEN Throw(db, "DatabaseError", log1)
    ELSE Ok([db EXCEPT !.customers[id].companyId = companyId], 0, log1)

\* UPDATE leads SET customer_id = $n WHERE id = $m, inside BEGIN ... COMMIT,
\* under customer_id INTEGER NOT NULL REFERENCES customers(id).
updateLead(user, db, id, customerId) ==
    LET log0 == <<"SELECT lead">>
        log1 == log0 \o <<"BEGIN", "UPDATE leads SET fields">>
    IN
    IF ~ActiveLead(db, id) THEN Throw(db, "not_found", log0)
    ELSE IF ownerCheck(user, db.leads[id].createdBy, "leads", "update") # "pass"
    THEN Throw(db, ownerCheck(user, db.leads[id].createdBy, "leads", "update"), log0)
    ELSE IF customerId = Absent THEN Ok(db, 0, Append(log1, "COMMIT"))
    ELSE IF customerId \notin DOMAIN db.customers
    THEN Throw(db, "DatabaseError", Append(log1, "ROLLBACK"))
    ELSE Ok([db EXCEPT !.leads[id].customerId = customerId], 0, Append(log1, "COMMIT"))

(***************************************************************************)
(* createCompany, createCustomer, createLead                               *)
(* `valid` tells whether the body passes the route's validators, which the *)
(* handler reads with validationResult(req). A SERIAL id is the next       *)
(* integer the table has not used.                                         *)
(***************************************************************************)
NextId(table) == Cardinality(DOMAIN table) + 1

\* INSERT INTO companies (name, industry, location, created_by)
\* VALUES ($1, $2, $3, req.user.id)
InsertCompany(db, createdBy) ==
    [db EXCEPT !.companies =
        @ @@ (NextId(db.companies) :> [createdBy |-> createdBy, deletedAt |-> NULL])]

\* Mutant: the new customer is given the creator of its company.
InsertCustomerOfCompanyCreator(db, companyId, createdBy) ==
    [db EXCEPT !.customers =
        @ @@ (NextId(db.customers) :>
                [createdBy |-> db.companies[companyId].createdBy, companyId |-> companyId,
                 deletedAt |-> NULL])]

\* INSERT INTO customers (name, email, phone, company_id, created_by)
\* VALUES ($1, $2, $3, $4, req.user.id)
InsertCustomer(db, companyId, createdBy) ==
    [db EXCEPT !.customers =
        @ @@ (NextId(db.customers) :>
                [createdBy |-> createdBy, companyId |-> companyId, deletedAt |-> NULL])]

\* INSERT INTO leads (..., customer_id, created_by, ...)
InsertLead(db, customerId, createdBy) ==
    [db EXCEPT !.leads =
        @ @@ (NextId(db.leads) :>
                [createdBy |-> createdBy, customerId |-> customerId, deletedAt |-> NULL])]

createCompany(user, db, valid) ==
    IF ~valid THEN Throw(db, "validation", <<>>)
    ELSE Created(InsertCompany(db, user.id), <<"INSERT companies">>)

\* company_id INTEGER REFERENCES companies(id): the INSERT is rejected when
\* no company row has the id, soft-deleted or not.
createCustomer(user, db, valid, companyId) ==
    IF ~valid \/ companyId = Absent THEN Throw(db, "validation", <<>>)
    ELSE IF companyId \notin DOMAIN db.companies
    THEN Throw(db, "DatabaseError", <<"INSERT customers">>)
    ELSE Created(InsertCustomer(db, companyId, user.id), <<"INSERT customers">>)

\* BEGIN; INSERT INTO leads; SELECT add_lead_activity(...); COMMIT, with
\* ROLLBACK in the catch block. add_lead_activity is a stored function the
\* handler calls; activityOk tells whether the database ran it or raised.
createLead(user, db, valid, customerId, activityOk) ==
    LET log1 == <<"BEGIN", "INSERT leads">>
    IN
    IF ~valid \/ customerId = Absent THEN Throw(db, "validation", <<>>)
    ELSE IF customerId \notin DOMAIN db.customers
    THEN Throw(db, "DatabaseError", Append(log1, "ROLLBACK"))
    ELSE IF ~activityOk
    THEN Throw(db, "DatabaseError", log1 \o <<"SELECT add_lead_activity", "ROLLBACK">>)
    ELSE Created(InsertLead(db, customerId, user.id),
                 log1 \o <<"SELECT add_lead_activity", "COMMIT">>)

(***************************************************************************)
(* createUser: the handler of POST /api/users, and the inline handler of   *)
(* POST /api/users/public, which differs by the default role.              *)
(* What a users handler hands back: the users table it leaves, the         *)
(* AppError it threw and the statements it ran.                            *)
(***************************************************************************)
UserResult(us, type, log) == [users |-> us, type |-> type, log |-> log]

\* SELECT id FROM users WHERE email = $1 AND deleted_at IS NULL
EmailInUse(us, email) ==
    \E u \in DOMAIN us : us[u].email = email /\ us[u].deletedAt = NULL

\* email VARCHAR(100) NOT NULL UNIQUE: the INSERT is rejected when any row,
\* soft-deleted or not, has the email.
EmailKnown(us, email) ==
    \E u \in DOMAIN us : us[u].email = email

\* `valid`: name, email and password pass the route's validators; the role
\* validator is body('role').isIn(['super_admin', 'sales', 'telecaller']).
createUser(us, valid, email, role) ==
    LET log0 == <<"SELECT user by email">>
        log1 == Append(log0, "SELECT role")
        log2 == Append(log1, "INSERT users")
    IN
    IF ~valid \/ role \notin Roles THEN UserResult(us, "validation", <<>>)
    ELSE IF EmailInUse(us, email) THEN UserResult(us, "validation", log0)
    ELSE IF role \notin Roles THEN UserResult(us, "validation", log1)
    ELSE IF EmailKnown(us, email) THEN UserResult(us, "DatabaseError", log2)
    ELSE UserResult(us @@ (NextId(us) :> [role |-> role, email |-> email, deletedAt |-> NULL]),
                    "created", Append(log2, "INSERT notification_settings"))

\* const { name, email, password, role = 'sales' } = req.body, under
\* body('role').optional().isIn([...]); "undefined" is a body without role.
createUserPublic(us, valid, email, role) ==
    createUser(us, valid, email, IF role = "undefined" THEN "sales" ELSE role)

(***************************************************************************)
(* deleteUser                                                              *)
(***************************************************************************)
\* (SELECT COUNT(*) FROM leads WHERE created_by = $1 AND deleted_at IS NULL),
\* the same of customers and of companies: one of the three is positive.
OwnsActiveRows(db, uid) ==
    \/ \E l \in DOMAIN db.leads : db.leads[l].createdBy = uid /\ db.leads[l].deletedAt = NULL
    \/ \E c \in DOMAIN db.customers :
          db.customers[c].createdBy = uid /\ db.customers[c].deletedAt = NULL
    \/ \E c \in DOMAIN db.companies :
          db.companies[c].createdBy = uid /\ db.companies[c].deletedAt = NULL

\* UPDATE users SET deleted_at = NOW() WHERE id = $1
SoftDeleteUser(us, id, t) ==
    [u \in DOMAIN us |-> IF u = id THEN [us[u] EXCEPT !.deletedAt = t] ELSE us[u]]

deleteUser(user, us, db, id, t) ==
    LET log0 == <<"SELECT user">>
        log1 == Append(log0, "SELECT role of user")
        log2 == Append(log1, "COUNT owned rows")
    IN
    IF user.role # "super_admin" THEN UserResult(us, "authorization", <<>>)
    ELSE IF ~(id \in DOMAIN us /\ us[id].deletedAt = NULL)
    THEN UserResult(us, "not_found", log0)
    ELSE IF us[id].role = "super_admin" THEN UserResult(us, "validation", log1)
    ELSE IF OwnsActiveRows(db, id) THEN UserResult(us, "validation", log2)
    ELSE UserResult(SoftDeleteUser(us, id, t), "ok",
                    log2 \o <<"UPDATE users SET deleted_at", "DELETE user_sessions">>)

(***************************************************************************)
(* A request, from authenticate to the response.                           *)
(***************************************************************************)
Request(op, actor, id, force, reassignTo, fk) ==
    [op |-> op, actor |-> actor, id |-> id, force |-> force,
     reassignTo |-> reassignTo, fk |-> fk, failAt |-> 0]

\* A forced delete during which the database rejects statement failAt of the
\* transaction.
FailingRequest(op, actor, id, reassignTo, failAt) ==
    [Request(op, actor, id, "true", reassignTo, Absent) EXCEPT !.failAt = failAt]

NoRequest == Request("none", Absent, Absent, "undefined", Absent, Absent)

\* router.use(authenticate): a request of a missing or soft-deleted user
\* ends there; any other reaches the route with req.user set.
Authenticated(actor, routed) ==
    IF UserFound(actor) THEN routed ELSE Throw(Db, "authentication", <<>>)

\* The server takes MaxRequests requests, one after the other.
Accepting == now < MaxRequests + 2

\* The request `r` was answered with the handler result `h`.
Respond(r, h) ==
    /\ companies' = h.db.companies
    /\ customers' = h.db.customers
    /\ leads' = h.db.leads
    /\ res' = errorHandler(h)
    /\ sqlLog' = h.log
    /\ req' = r
    /\ pre' = Db
    /\ now' = now + 1
    /\ UNCHANGED <<users, rolePermissions, inflight>>

\* The ids requests name: the first two rows of a table and an id no row has.
TargetIds(table) == {1, 2, Cardinality(DOMAIN table) + 1}

GetCompanyById ==
    /\ Accepting
    /\ \E actor \in DOMAIN users, id \in TargetIds(companies) :
        Respond(Request("getCompanyById", actor, id, "undefined", Absent, Absent),
                Authenticated(actor,
                    Route(authenticate(actor), "companies", "read",
                          getCompanyById(authenticate(actor), Db, id), Db)))

UpdateCompany ==
    /\ Accepting
    /\ \E actor \in DOMAIN users, id \in TargetIds(companies) :
        Respond(Request("updateCompany", actor, id, "undefined", Absent, Absent),
                Authenticated(actor,
                    Route(authenticate(actor), "companies", "update",
                          updateCompany(authenticate(actor), Db, id), Db)))

DeleteCompany ==
    /\ Accepting
    /\ \E actor \in DOMAIN users, id \in TargetIds(companies), force \in ForceValues,
       reassignTo \in {Absent} \cup TargetIds(companies) :
        \E sample \in LimitChoices(ActiveCustomersOf(Db, id)) :
            Respond(Request("deleteCompany", actor, id, force, reassignTo, Absent),
                    Authenticated(actor,
                        Route(authenticate(actor), "companies", "delete",
                              deleteCompany(authenticate(actor), Db, id, force,
                                            reassignTo, sample, now, 0), Db)))

GetCustomerById ==
    /\ Accepting
    /\ \E actor \in DOMAIN users, id \in TargetIds(customers) :
        Respond(Request("getCustomerById", actor, id, "undefined", Absent, Absent),
                Authenticated(actor,
                    Route(authenticate(actor), "customers", "read",
                          getCustomerById(authenticate(actor), Db, id), Db)))

UpdateCustomer ==
    /\ Accepting
    /\ \E actor \in DOMAIN users, id \in TargetIds(customers),
       companyId \in {Absent} \cup TargetIds(companies) :
        Respond(Request("updateCustomer", actor, id, "undefined", Absent, companyId),
                Authenticated(actor,
                    Route(authenticate(actor), "customers", "update",
                          updateCustomer(authenticate(actor), Db, id, companyId), Db)))

DeleteCustomer ==
    /\ Accepting
    /\ \E actor \in DOMAIN users, id \in TargetIds(customers), force \in ForceValues,
       reassignTo \in {Absent} \cup TargetIds(customers) :
        \E sample \in LimitChoices(ActiveLeadsOf(Db, id)) :
            Respond(Request("deleteCustomer", actor, id, force, reassignTo, Absent),
                    Authenticated(actor,
                        Route(authenticate(actor), "customers", "delete",
                              deleteCustomer(authenticate(actor), Db, id, force,
                                             reassignTo, sample, now, 0), Db)))

GetLeadById ==
    /\ Accepting
    /\ \E actor \in DOMAIN users, id \in TargetIds(leads) :
        Respond(Request("getLeadById", actor, id, "undefined", Absent, Absent),
                Authenticated(actor,
                    Route(authenticate(actor), "leads", "read",
                          getLeadById(authenticate(actor), Db, id), Db)))

UpdateLead ==
    /\ Accepting
    /\ \E actor \in DOMAIN users, id \in TargetIds(leads),
       customerId \in {Absent} \cup TargetIds(customers) :
        Respond(Request("updateLead", actor, id, "undefined", Absent, customerId),
                Authenticated(actor,
                    Route(authenticate(actor), "leads", "update",
                          updateLead(authenticate(actor), Db, id, customerId), Db)))

DeleteLead ==
    /\ Accepting
    /\ \E actor \in DOMAIN users, id \in TargetIds(leads) :
        Respond(Request("deleteLead", actor, id, "undefined", Absent, Absent),
                Authenticated(actor,
                    Route(authenticate(actor), "leads", "delete",
                          deleteLead(authenticate(actor), Db, id, now), Db)))

GetAllCompanies ==
    /\ Accepting
    /\ \E actor \in DOMAIN users :
        Respond(Request("getAllCompanies", actor, Absent, "undefined", Absent, Absent),
                Authenticated(actor,
                    Route(authenticate(actor), "companies", "read",
                          getAllCompanies(authenticate(actor), Db), Db)))

GetAllCustomers ==
    /\ Accepting
    /\ \E actor \in DOMAIN users :
        Respond(Request("getAllCustomers", actor, Absent, "undefined", Absent, Absent),
                Authenticated(actor,
                    Route(authenticate(actor), "customers", "read",
                          getAllCustomers(authenticate(actor), Db), Db)))

GetAllLeads ==
    /\ Accepting
    /\ \E actor \in DOMAIN users :
        Respond(Request("getAllLeads", actor, Absent, "undefined", Absent, Absent),
                Authenticated(actor,
                    Route(authenticate(actor), "leads", "read",
                          getAllLeads(authenticate(actor), Db), Db)))

GetCompanyCustomers ==
    /\ Accepting
    /\ \E actor \in DOMAIN users, id \in TargetIds(companies) :
        Respond(Request("getCompanyCustomers", actor, id, "undefined", Absent, Absent),
                Authenticated(actor,
                    Route(authenticate(actor), "companies", "read",
                          getCompanyCustomers(authenticate(actor), Db, id), Db)))

CreateCompany ==
    /\ Accepting
    /\ \E actor \in DOMAIN users, valid \in BOOLEAN :
        Respond(Request("createCompany", actor, Absent, "undefined", Absent, Absent),
                Authenticated(actor,
                    Route(authenticate(actor), "companies", "create",
                          createCompany(authenticate(actor), Db, valid), Db)))

CreateCustomer ==
    /\ Accepting
    /\ \E actor \in DOMAIN users, valid \in BOOLEAN,
       companyId \in {Absent} \cup TargetIds(companies) :
        Respond(Request("createCustomer", actor, Absent, "undefined", Absent, companyId),
                Authenticated(actor,
                    Route(authenticate(actor), "customers", "create",
                          createCustomer(authenticate(actor), Db, valid, companyId), Db)))

CreateLead ==
    /\ Accepting
    /\ \E actor \in DOMAIN users, valid \in BOOLEAN, activityOk \in BOOLEAN,
       customerId \in {Absent} \cup TargetIds(customers) :
        Respond(Request("createLead", actor, Absent, "undefined", Absent, customerId),
                Authenticated(actor,
                    Route(authenticate(actor), "leads", "create",
                          createLead(authenticate(actor), Db, valid, customerId, activityOk),
                          Db)))

\* A request on the users routes: the user or role it names in its path
\* and the email and role of its body.
UserRequest(op, actor, id, email, role) ==
    [op |-> op, actor |-> actor, id |-> id, email |-> email, role |-> role]

\* A request on the users routes was answered with the users result `h`.
RespondUsers(r, h) ==
    /\ users' = h.users
    /\ res' = errorHandler(Throw(Db, h.type, h.log))
    /\ sqlLog' = h.log
    /\ req' = r
    /\ pre' = Db
    /\ now' = now + 1
    /\ UNCHANGED <<rolePermissions, companies, customers, leads, inflight>>

\* router.use(authenticate) of the users routes.
AuthenticatedUsers(actor, routed) ==
    IF UserFound(actor) THEN routed ELSE UserResult(users, "authentication", <<>>)

\* The emails a body names: the administrator's, and one no row has.
BodyEmails == {1, NextId(users)}

\* The roles a body names, one of them unknown to the roles table.
BodyRoles == Roles \cup {"manager"}

\* POST /api/users, behind router.use(authenticate) and nothing else.
CreateUser ==
    /\ Accepting
    /\ \E actor \in DOMAIN users, valid \in BOOLEAN, email \in BodyEmails, role \in BodyRoles :
        RespondUsers(UserRequest("createUser", actor, Absent, email, role),
                     AuthenticatedUsers(actor, createUser(users, valid, email, role)))

\* POST /api/users/public, registered before router.use(authenticate): the
\* request has no actor.
CreateUserPublic ==
    /\ Accepting
    /\ \E valid \in BOOLEAN, email \in BodyEmails, role \in BodyRoles \cup {"undefined"} :
        RespondUsers(UserRequest("createUserPublic", Absent, Absent, email, role),
                     createUserPublic(users, valid, email, role))

\* DELETE /api/users/:id
DeleteUser ==
    /\ Accepting
    /\ \E actor \in DOMAIN users, id \in DOMAIN users \cup {NextId(users)} :
        RespondUsers(UserRequest("deleteUser", actor, id, Absent, "undefined"),
                     AuthenticatedUsers(actor,
                         deleteUser(authenticate(actor), users, Db, id, now)))

\* The statements of the longest transaction: BEGIN, three UPDATEs, COMMIT.
FailPoints == 1..5

DeleteCompanyFailing ==
    /\ Accepting
    /\ \E actor \in DOMAIN users, id \in TargetIds(companies),
       reassignTo \in {Absent} \cup TargetIds(companies), failAt \in FailPoints :
        Respond(FailingRequest("deleteCompany", actor, id, reassignTo, failAt),
                Authenticated(actor,
                    Route(authenticate(actor), "companies", "delete",
                          deleteCompany(authenticate(actor), Db, id, "true",
                                        reassignTo, {}, now, failAt), Db)))

DeleteCustomerFailing ==
    /\ Accepting
    /\ \E actor \in DOMAIN users, id \in TargetIds(customers),
       reassignTo \in {Absent} \cup TargetIds(customers), failAt \in FailPoints :
        Respond(FailingRequest("deleteCustomer", actor, id, reassignTo, failAt),
                Authenticated(actor,
                    Route(authenticate(actor), "customers", "delete",
                          deleteCustomer(authenticate(actor), Db, id, "true",
                                         reassignTo, {}, now, failAt), Db)))

(***************************************************************************)
(* Initial states: databases the API can have produced.                    *)
(***************************************************************************)
\* The seeded administrator and one user of each other role.
InitialUsers ==
    (1 :> [role |-> "super_admin", email |-> 1, deletedAt |-> NULL])
    @@ (2 :> [role |-> "sales", email |-> 2, deletedAt |-> NULL])
    @@ (3 :> [role |-> "telecaller", email |-> 3, deletedAt |-> NULL])

AllGrants == Resources \X Actions
ReadGrants == Resources \X {"read"}

\* Registries an administrator can have set with updateRolePermissions: for
\* each role no grant at all, read only, everything, or a mixture.
FullRegistry ==
    [super_admin |-> AllGrants, sales |-> AllGrants, telecaller |-> ReadGrants]

InitialRegistries ==
    { FullRegistry,
      [super_admin |-> {}, sales |-> {}, telecaller |-> AllGrants],
      [super_admin |-> {}, sales |-> ReadGrants,
       telecaller |-> {<<"companies", "delete">>, <<"customers", "update">>,
                       <<"leads", "read">>}] }

\* m leads dealt in turn to the first k customers.
Dealt(m, k) == [j \in 1..m |-> ((j - 1) % k) + 1]

\* A layout is <<cc, lc>>: cc[i] is the company of customer i, lc[j] the
\* customer of lead j.
\* One company with 0..MaxCustomers customers, a lead on the first of them.
WideLayouts ==
    { <<[i \in 1..n |-> 1], Dealt(m, 1)>> : n \in 0..MaxCustomers, m \in 0..1 }

\* One customer in each of two companies, 0..MaxLeads leads on the first or
\* dealt to both.
DeepLayouts ==
    { <<(<<1, MaxCompanies>>), Dealt(m, 1)>> : m \in 0..MaxLeads }
    \cup { <<(<<1, MaxCompanies>>), Dealt(m, 2)>> : m \in {2, MaxLeads} }

\* A company with two customers that share the leads, alone or next to a
\* customer of another company.
CascadeLayouts ==
    { <<(<<1, 1>>), Dealt(MaxLeads, 2)>>,
      <<(<<1, 1, MaxCompanies>>), Dealt(MaxLeads, 2)>>,
      <<(<<1, 1, MaxCompanies>>), Dealt(MaxLeads, 3)>>,
      <<(<<1, 1, MaxCompanies>>), Dealt(3, 3)>> }

InitialLayouts ==
    { w \in WideLayouts : (Len(w[1]) = 0 => Len(w[2]) = 0) /\ (Len(w[1]) >= 3 => Len(w[2]) = 1) }
    \cup DeepLayouts \cup CascadeLayouts

\* Rows soft-deleted before the first request: none, or one row of one table.
PreDeleted == {"none", "company", "customer", "lead"}

InitDb(cc, lc, gone) ==
    [companies |->
        [c \in 1..MaxCompanies |->
            [createdBy |-> IF c = 1 THEN 2 ELSE 3,
             deletedAt |-> IF gone = "company" /\ c = MaxCompanies THEN 1 ELSE NULL]],
     customers |->
        [c \in 1..Len(cc) |->
            [createdBy |-> IF c % 2 = 1 THEN 2 ELSE 3,
             companyId |-> cc[c],
             deletedAt |-> IF gone = "customer" /\ c = 2 THEN 1 ELSE NULL]],
     leads |->
        [l \in 1..Len(lc) |->
            [createdBy |-> IF l % 2 = 1 THEN 3 ELSE 2,
             customerId |-> lc[l],
             deletedAt |-> IF gone = "lead" /\ l = 1 THEN 1 ELSE NULL]]]

\* Every layout under the full registry, the small ones under every registry;
\* rows soft-deleted beforehand in the layouts of up to three rows a table.
Init ==
    /\ users = InitialUsers
    /\ rolePermissions \in InitialRegistries
    /\ \E layout \in InitialLayouts, gone \in PreDeleted :
            /\ \/ rolePermissions = FullRegistry
               \/ Len(layout[1]) <= 2 /\ Len(layout[2]) <= 1
            /\ \/ gone = "none"
               \/ rolePermissions = FullRegistry /\ Len(layout[1]) <= 3 /\ Len(layout[2]) <= 3
            /\ companies = InitDb(layout[1], layout[2], gone).companies
            /\ customers = InitDb(layout[1], layout[2], gone).customers
            /\ leads = InitDb(layout[1], layout[2], gone).leads
            /\ pre = InitDb(layout[1], layout[2], gone)
    /\ now = 2
    /\ req = NoRequest
    /\ res = errorHandler(Ok(pre, 0, <<>>))
    /\ sqlLog = <<>>
    /\ inflight = <<>>

Next ==
    \/ GetCompanyById
    \/ UpdateCompany
    \/ DeleteCompany
    \/ GetCustomerById
    \/ UpdateCustomer
    \/ DeleteCustomer
    \/ GetLeadById
    \/ UpdateLead
    \/ DeleteLead
    \/ GetAllCompanies
    \/ GetAllCustomers
    \/ GetAllLeads
    \/ GetCompanyCustomers

Spec == Init /\ [][Next]_vars

\* The same server in front of a database that may reject a statement of a
\* Reassign or ForceCascade transaction.
FaultNext ==
    \/ DeleteCompanyFailing
    \/ DeleteCustomerFailing

FaultSpec == Init /\ [][FaultNext]_vars

(***************************************************************************)
(* The life of the rows: the create, update and delete requests of the     *)
(* three resources and the administration of users and roles, over small   *)
(* databases in which every active row has an active parent.               *)
(***************************************************************************)
\* <<cc, lc, gone>>: a layout and the row soft-deleted before the first
\* request. The soft-deleted company and customer have no dependents.
\* Next to the seeded users there may be a user soft-deleted earlier.
LifeLayouts ==
    { <<(<<1>>), (<<1>>), "none">>,
      <<(<<1>>), (<<1>>), "company">>,
      <<(<<1, 1>>), (<<1>>), "customer">>,
      <<(<<1, MaxCompanies>>), (<<1, 2>>), "none">>,
      <<(<<1, MaxCompanies>>), (<<1, 2>>), "lead">> }

LifeUsers ==
    { InitialUsers,
      InitialUsers @@ (4 :> [role |-> "super_admin", email |-> 4, deletedAt |-> 1]) }

LifeInit ==
    /\ users \in LifeUsers
    /\ rolePermissions \in InitialRegistries
    /\ \E layout \in LifeLayouts :
            /\ companies = InitDb(layout[1], layout[2], layout[3]).companies
            /\ customers = InitDb(layout[1], layout[2], layout[3]).customers
            /\ leads = InitDb(layout[1], layout[2], layout[3]).leads
            /\ pre = InitDb(layout[1], layout[2], layout[3])
    /\ now = 2
    /\ req = NoRequest
    /\ res = errorHandler(Ok(pre, 0, <<>>))
    /\ sqlLog = <<>>
    /\ inflight = <<>>

LifeNext ==
    \/ CreateCompany
    \/ CreateCustomer
    \/ CreateLead
    \/ UpdateCompany
    \/ UpdateCustomer
    \/ UpdateLead
    \/ DeleteCompany
    \/ DeleteCustomer
    \/ DeleteLead
    \/ CreateUser
    \/ CreateUserPublic
    \/ DeleteUser

LifeSpec == LifeInit /\ [][LifeNext]_vars

(***************************************************************************)
(* Concurrent requests. Express serves each request as a chain of awaits:  *)
(* between two statements of one request any statement of another may      *)
(* run. A statement sent with db.query runs on a pool connection and       *)
(* commits on its own; the statements a handler sends on its client        *)
(* between BEGIN and COMMIT form one READ COMMITTED transaction: what it    *)
(* wrote is seen by its own later statements only, until COMMIT publishes  *)
(* it, and a row it wrote cannot be written by another request before.     *)
(***************************************************************************)
Tables == {"companies", "customers", "leads"}

NoWrites == [t \in Tables |-> <<>>]
NoUser == [id |-> Absent, role |-> "none", permissions |-> <<>>]
NoResponse == [status |-> 0, message |-> "none", errors |-> NoPayload, reported |-> 0, rows |-> {}]

\* A request as it arrives: nothing of it has run.
Arrived(op, actor, id, force, reassignTo, role, grants) ==
    [op |-> op, actor |-> actor, id |-> id, force |-> force, reassignTo |-> reassignTo,
     role |-> role, grants |-> grants,
     pc |-> "authUser", user |-> NoUser, count |-> 0, affected |-> 0,
     txOpen |-> FALSE, txTime |-> 0, written |-> NoWrites,
     grantsSeen |-> {}, grantsDeleted |-> {}, grantsInserted |-> {},
     res |-> NoResponse]

\* The tables a statement of request p reads: the committed rows, with the
\* rows p's own open transaction wrote in place of theirs.
View(p) ==
    [t \in Tables |->
        [x \in DOMAIN Db[t] |->
            IF x \in DOMAIN p.written[t] THEN p.written[t][x] ELSE Db[t][x]]]

\* role_permissions as the commit of p's transaction leaves it: the committed
\* rows without those p's DELETE removed, with those p's INSERT added.
ViewGrants(p) ==
    [r \in Roles |->
        IF r = p.role THEN (rolePermissions[r] \ p.grantsDeleted) \cup p.grantsInserted
        ELSE rolePermissions[r]]

\* The rows a write statement changed, as <<table, id>>.
Changed(before, after) ==
    UNION {{<<t, x>> : x \in {y \in DOMAIN before[t] : after[t][y] # before[t][y]}} : t \in Tables}

\* The rows and roles written by the open transactions of the other requests.
LockedByOthers(s) ==
    UNION {{<<t, x>> : x \in DOMAIN inflight[o].written[t]} : 
              <<o, t>> \in (DOMAIN inflight \ {s}) \X Tables}

\* The role_permissions rows of a role that the open transactions of the
\* other requests have deleted, and those they have inserted.
GrantsDeletedByOthers(s, role) ==
    UNION {inflight[o].grantsDeleted :
              o \in {u \in DOMAIN inflight \ {s} : inflight[u].role = role}}

GrantsInsertedByOthers(s, role) ==
    UNION {inflight[o].grantsInserted :
              o \in {u \in DOMAIN inflight \ {s} : inflight[u].role = role}}

\* The request's record once a write statement has left the tables `after`.
Written(p, after) ==
    IF p.txOpen
    THEN [p EXCEPT !.written =
            [t \in Tables |->
                [x \in DOMAIN p.written[t] \cup {y \in DOMAIN Db[t] : after[t][y] # View(p)[t][y]}
                    |-> after[t][x]]]]
    ELSE p

\* Mutant: the handler's statements go to the pool, each committing on its own.
BeginTransactionOnPool(p, t) ==
    [p EXCEPT !.txTime = t]

\* await client.query('BEGIN'): NOW() is the transaction's start from here on.
BeginTransaction(p, t) ==
    [p EXCEPT !.txOpen = TRUE, !.txTime = t]

\* The response is sent: formatSuccess, or next(error) into errorHandler.
Finish(p, h) ==
    [p EXCEPT !.pc = "done", !.res = errorHandler(h),
              !.txOpen = FALSE, !.written = NoWrites,
              !.grantsSeen = {}, !.grantsDeleted = {}, !.grantsInserted = {}]

ConcEntityOps ==
    {"deleteCompany", "deleteCustomer", "getCompanyById", "getCustomerById",
     "getCompanyCustomers"}
ConcAdminOps == {"updateRolePermissions", "updateUserRole"}

ResourceOf(op) ==
    IF op \in {"deleteCompany", "getCompanyById", "getCompanyCustomers"}
    THEN "companies" ELSE "customers"

ActionOf(op) ==
    IF op \in {"deleteCompany", "deleteCustomer"} THEN "delete" ELSE "read"

\* One statement of request s ran: its record becomes p, the committed
\* tables become db, the rest of the server is as it was.
Step(s, p, db) ==
    /\ inflight' = [inflight EXCEPT ![s] = p]
    /\ companies' = db.companies
    /\ customers' = db.customers
    /\ leads' = db.leads
    /\ UNCHANGED <<req, res, sqlLog, pre>>

\* authenticate: SELECT ... FROM users u JOIN roles r ... WHERE u.deleted_at IS NULL
AuthenticateUser ==
    \E s \in DOMAIN inflight :
        LET p == inflight[s] IN
        /\ p.pc = "authUser"
        /\ IF UserFound(p.actor)
           THEN Step(s, [p EXCEPT !.pc = "authPermissions",
                                  !.user = [id |-> p.actor, role |-> users[p.actor].role,
                                            permissions |-> <<>>]], Db)
           ELSE Step(s, Finish(p, Throw(Db, "authentication", <<>>)), Db)
        /\ UNCHANGED <<users, rolePermissions, now>>

\* authenticate: SELECT p.resource, p.action ... WHERE r.name = $1, organised
\* by resource into req.user.permissions.
AuthenticatePermissions ==
    \E s \in DOMAIN inflight :
        LET p == inflight[s]
            granted == rolePermissions[p.user.role]
        IN
        /\ p.pc = "authPermissions"
        /\ Step(s, [p EXCEPT !.pc = "route",
                             !.user.permissions =
                                [r \in {g[1] : g \in granted} |->
                                    {g[2] : g \in {h \in granted : h[1] = r}}]], Db)
        /\ UNCHANGED <<users, rolePermissions, now>>

\* checkPermission(resource, action) in front of the entity handlers.
RouteMiddleware ==
    \E s \in DOMAIN inflight :
        LET p == inflight[s] IN
        /\ p.pc = "route" /\ p.op \in ConcEntityOps
        /\ IF checkPermission(p.user, ResourceOf(p.op), ActionOf(p.op))
           THEN Step(s, [p EXCEPT !.pc = "select"], Db)
           ELSE Step(s, Finish(p, Throw(Db, "authorization", <<>>)), Db)
        /\ UNCHANGED <<users, rolePermissions, now>>

\* The existence check of the handler and the owner check on the row found.
SelectTarget ==
    \E s \in DOMAIN inflight :
        LET p == inflight[s]
            found == IF ResourceOf(p.op) = "companies" THEN ActiveCompany(Db, p.id)
                     ELSE IF p.op = "getCustomerById"
                     THEN ActiveCustomer(Db, p.id)
                          /\ customers[p.id].companyId \in DOMAIN companies
                     ELSE ActiveCustomer(Db, p.id)
            owner == Db[ResourceOf(p.op)][p.id].createdBy
            checked == ownerCheck(p.user, owner, ResourceOf(p.op), ActionOf(p.op))
        IN
        /\ p.pc = "select"
        /\ IF ~found THEN Step(s, Finish(p, Throw(Db, "not_found", <<>>)), Db)
           ELSE IF p.op = "getCompanyCustomers" THEN Step(s, [p EXCEPT !.pc = "list"], Db)
           ELSE IF checked # "pass" THEN Step(s, Finish(p, Throw(Db, checked, <<>>)), Db)
           ELSE IF ActionOf(p.op) = "read" THEN Step(s, Finish(p, Ok(Db, 0, <<>>)), Db)
           ELSE Step(s, [p EXCEPT !.pc = "count"], Db)
        /\ UNCHANGED <<users, rolePermissions, now>>

\* getCompanyCustomers: the second query, the active customers of the company.
ListCompanyCustomers ==
    \E s \in DOMAIN inflight :
        LET p == inflight[s] IN
        /\ p.pc = "list"
        /\ Step(s, Finish(p, OkRows(Db, ActiveCustomersOf(Db, p.id), <<>>)), Db)
        /\ UNCHANGED <<users, rolePermissions, now>>

\* SELECT COUNT(*) of the active dependents, and the branch the handler takes.
CountDependents ==
    \E s \in DOMAIN inflight :
        LET p == inflight[s]
            n == IF p.op = "deleteCompany" THEN Cardinality(ActiveCustomersOf(Db, p.id))
                 ELSE Cardinality(ActiveLeadsOf(Db, p.id))
        IN
        /\ p.pc = "count"
        /\ Step(s, [p EXCEPT !.count = n,
                             !.pc = IF n = 0 THEN "direct"
                                    ELSE IF p.force # "true" THEN "sample"
                                    ELSE IF p.reassignTo # Absent THEN "target"
                                    ELSE "begin"], Db)
        /\ UNCHANGED <<users, rolePermissions, now>>

\* The blocked delete: SELECT ... LIMIT 5, then the validation error.
SelectSample ==
    \E s \in DOMAIN inflight :
        LET p == inflight[s]
            dependents == IF p.op = "deleteCompany" THEN ActiveCustomersOf(Db, p.id)
                          ELSE ActiveLeadsOf(Db, p.id)
        IN
        /\ p.pc = "sample"
        /\ \E sample \in LimitChoices(dependents) :
              Step(s, Finish(p, ThrowBlocked(Db, p.count, sample, <<>>)), Db)
        /\ UNCHANGED <<users, rolePermissions, now>>

\* Reassign: the target of the reassignment must be an active row.
SelectReassignTarget ==
    \E s \in DOMAIN inflight :
        LET p == inflight[s]
            found == IF p.op = "deleteCompany" THEN ActiveCompany(Db, p.reassignTo)
                     ELSE ActiveCustomer(Db, p.reassignTo)
        IN
        /\ p.pc = "target"
        /\ IF found THEN Step(s, [p EXCEPT !.pc = "begin"], Db)
           ELSE Step(s, Finish(p, Throw(Db, "validation", <<>>)), Db)
        /\ UNCHANGED <<users, rolePermissions, now>>

\* No dependents were counted: UPDATE ... SET deleted_at = NOW() WHERE id = $1
\* on the pool.
DirectDelete ==
    \E s \in DOMAIN inflight :
        LET p == inflight[s]
            after == IF p.op = "deleteCompany" THEN SoftDeleteCompany(Db, p.id, now)
                     ELSE SoftDeleteCustomer(Db, p.id, now)
        IN
        /\ p.pc = "direct"
        /\ Changed(Db, after) \cap LockedByOthers(s) = {}
        /\ Step(s, Finish(p, Ok(Db, 0, <<>>)), after)
        /\ now' = now + 1
        /\ UNCHANGED <<users, rolePermissions>>

\* const client = await db.pool.connect(); await client.query('BEGIN')
Begin ==
    \E s \in DOMAIN inflight :
        LET p == inflight[s] IN
        /\ p.pc = "begin"
        /\ Step(s, [BeginTransaction(p, now) EXCEPT
                        !.pc = IF p.op \in ConcAdminOps THEN "deleteGrants"
                               ELSE IF p.reassignTo # Absent THEN "reassign"
                               ELSE IF p.op = "deleteCompany" THEN "cascadeLeads"
                               ELSE "cascade"], Db)
        /\ now' = now + 1
        /\ UNCHANGED <<users, rolePermissions>>

\* A write statement of a delete strategy: the request's record and the
\* committed tables after it, given the tables `after` it leaves in its view.
Wrote(s, p, after, pc) ==
    /\ Changed(View(p), after) \cap LockedByOthers(s) = {}
    /\ Step(s, [Written(p, after) EXCEPT !.pc = pc], IF p.txOpen THEN Db ELSE after)
    /\ UNCHANGED <<users, rolePermissions, now>>

\* Reassign: UPDATE customers SET company_id / UPDATE leads SET customer_id
ReassignDependents ==
    \E s \in DOMAIN inflight :
        LET p == inflight[s]
            after == IF p.op = "deleteCompany" THEN ReassignCustomers(View(p), p.reassignTo, p.id)
                     ELSE ReassignLeads(View(p), p.reassignTo, p.id)
            matched == IF p.op = "deleteCompany" THEN ActiveCustomersOf(View(p), p.id)
                       ELSE ActiveLeadsOf(View(p), p.id)
        IN
        /\ p.pc = "reassign"
        /\ Wrote(s, [p EXCEPT !.affected = Cardinality(matched)], after, "softDelete")

\* Company ForceCascade: UPDATE leads SET deleted_at = NOW() WHERE customer_id IN (...)
CascadeLeads ==
    \E s \in DOMAIN inflight :
        LET p == inflight[s] IN
        /\ p.pc = "cascadeLeads"
        /\ Wrote(s, p, SoftDeleteLeadsOfCompany(View(p), p.id, p.txTime), "cascade")

\* ForceCascade: UPDATE customers / leads SET deleted_at = NOW() WHERE the
\* parent is the target AND deleted_at IS NULL
CascadeDependents ==
    \E s \in DOMAIN inflight :
        LET p == inflight[s]
            after == IF p.op = "deleteCompany"
                     THEN SoftDeleteCustomersOfCompany(View(p), p.id, p.txTime)
                     ELSE SoftDeleteLeadsOfCustomer(View(p), p.id, p.txTime)
            matched == IF p.op = "deleteCompany" THEN ActiveCustomersOf(View(p), p.id)
                       ELSE ActiveLeadsOf(View(p), p.id)
        IN
        /\ p.pc = "cascade"
        /\ Wrote(s, [p EXCEPT !.affected = Cardinality(matched)], after, "softDelete")

\* The last UPDATE of either transaction: the target's deleted_at = NOW().
SoftDeleteTarget ==
    \E s \in DOMAIN inflight :
        LET p == inflight[s]
            after == IF p.op = "deleteCompany" THEN SoftDeleteCompany(View(p), p.id, p.txTime)
                     ELSE SoftDeleteCustomer(View(p), p.id, p.txTime)
        IN
        /\ p.pc = "softDelete"
        /\ Wrote(s, p, after, "commit")

\* READ COMMITTED: a DELETE that waited for the rows another transaction had
\* deleted skips them once that transaction commits; the rows that
\* transaction inserted are not in the statement's snapshot.
Overtaken(u, p) ==
    [u EXCEPT !.grantsSeen = IF u.role = p.role THEN @ \ p.grantsDeleted ELSE @]

\* await client.query('COMMIT'), then the success response with the count
\* taken before the transaction.
Commit ==
    \E s \in DOMAIN inflight :
        LET p == inflight[s] IN
        /\ p.pc = "commit"
        /\ inflight' =
              [u \in DOMAIN inflight |->
                  IF u = s
                  THEN Finish(p, Ok(Db, IF p.op \in ConcAdminOps THEN 0 ELSE p.count, <<>>))
                  ELSE Overtaken(inflight[u], p)]
        /\ companies' = View(p).companies
        /\ customers' = View(p).customers
        /\ leads' = View(p).leads
        /\ rolePermissions' = ViewGrants(p)
        /\ UNCHANGED <<users, now, req, res, sqlLog, pre>>

\* updateRolePermissions, updateUserRole: the handler's first lines,
\*   if (req.user.role !== 'super_admin') throw authorization
AdminOnly ==
    \E s \in DOMAIN inflight :
        LET p == inflight[s] IN
        /\ p.pc = "route" /\ p.op \in ConcAdminOps
        /\ IF p.user.role # "super_admin"
           THEN Step(s, Finish(p, Throw(Db, "authorization", <<>>)), Db)
           ELSE Step(s, [p EXCEPT !.pc = IF p.op = "updateUserRole" THEN "selectUser"
                                         ELSE "selectRole"], Db)
        /\ UNCHANGED <<users, rolePermissions, now>>

\* updateUserRole: SELECT * FROM users WHERE id = $1 AND deleted_at IS NULL
SelectUser ==
    \E s \in DOMAIN inflight :
        LET p == inflight[s] IN
        /\ p.pc = "selectUser"
        /\ IF UserFound(p.id) THEN Step(s, [p EXCEPT !.pc = "selectRole"], Db)
           ELSE Step(s, Finish(p, Throw(Db, "not_found", <<>>)), Db)
        /\ UNCHANGED <<users, rolePermissions, now>>

\* SELECT id FROM roles WHERE name = $1
SelectRole ==
    \E s \in DOMAIN inflight :
        LET p == inflight[s] IN
        /\ p.pc = "selectRole"
        /\ IF p.role \notin Roles THEN Step(s, Finish(p, Throw(Db, "validation", <<>>)), Db)
           ELSE Step(s, [p EXCEPT !.pc = IF p.op = "updateUserRole" THEN "updateUser"
                                         ELSE "begin"], Db)
        /\ UNCHANGED <<users, rolePermissions, now>>

\* updateUserRole: UPDATE users SET role_id = $1 WHERE id = $2, on the pool.
UpdateUser ==
    \E s \in DOMAIN inflight :
        LET p == inflight[s] IN
        /\ p.pc = "updateUser"
        /\ Step(s, Finish(p, Ok(Db, 0, <<>>)), Db)
        /\ users' = [users EXCEPT ![p.id].role = p.role]
        /\ UNCHANGED <<rolePermissions, now>>

\* The pc after the DELETE: the lookups and the INSERT run only when the
\* permissions table holds a pair of the body (permissionsToInsert.length > 0).
AfterDelete(p) ==
    IF p.grants \cap AllGrants = {} THEN "commit" ELSE "insertGrants"

\* The DELETE of updateRolePermissions removed `rows`: on a client with an
\* open transaction the rows stay committed and locked until COMMIT.
DeletedGrants(s, p, rows) ==
    /\ IF p.txOpen
       THEN /\ Step(s, [p EXCEPT !.pc = AfterDelete(p), !.grantsSeen = {},
                                 !.grantsDeleted = rows], Db)
            /\ UNCHANGED rolePermissions
       ELSE /\ Step(s, [p EXCEPT !.pc = AfterDelete(p), !.grantsSeen = {}], Db)
            /\ rolePermissions' = [rolePermissions EXCEPT ![p.role] = @ \ rows]
    /\ UNCHANGED <<users, now>>

\* DELETE FROM role_permissions WHERE role_id = $1: its targets are the
\* committed rows of the role; when an open transaction has deleted one of
\* them the statement waits for that transaction to end.
DeleteGrants ==
    \E s \in DOMAIN inflight :
        LET p == inflight[s]
            seen == rolePermissions[p.role]
        IN /\ p.pc = "deleteGrants"
           /\ IF seen \cap GrantsDeletedByOthers(s, p.role) # {}
              THEN /\ Step(s, [p EXCEPT !.pc = "deleteGrantsBlocked", !.grantsSeen = seen], Db)
                   /\ UNCHANGED <<users, rolePermissions, now>>
              ELSE DeletedGrants(s, p, seen)

\* The waiting DELETE goes on when the transactions it waited for have
\* ended: it removes the rows of its snapshot that are still there.
DeleteGrantsUnblocked ==
    \E s \in DOMAIN inflight :
        LET p == inflight[s] IN
        /\ p.pc = "deleteGrantsBlocked"
        /\ p.grantsSeen \cap GrantsDeletedByOthers(s, p.role) = {}
        /\ DeletedGrants(s, p, p.grantsSeen)

\* SELECT id FROM permissions WHERE resource = $1 AND action = $2 for each
\* pair of the body (a pair the table does not hold is left out), then
\* INSERT INTO role_permissions ... VALUES of the pairs found. The statement
\* waits while an open transaction holds a row with one of its keys; a
\* committed row with one of its keys violates PRIMARY KEY (role_id,
\* permission_id), and the catch block sends ROLLBACK and hands the error on.
InsertGrants ==
    \E s \in DOMAIN inflight :
        LET p == inflight[s]
            rows == p.grants \cap AllGrants
            kept == rolePermissions[p.role] \ p.grantsDeleted
        IN /\ p.pc = "insertGrants"
           /\ rows \cap (GrantsDeletedByOthers(s, p.role)
                          \cup GrantsInsertedByOthers(s, p.role)) = {}
           /\ IF rows \cap kept # {}
              THEN /\ Step(s, Finish(p, Throw(Db, "DatabaseError", <<>>)), Db)
                   /\ UNCHANGED rolePermissions
              ELSE IF p.txOpen
              THEN /\ Step(s, [p EXCEPT !.pc = "commit", !.grantsInserted = rows], Db)
                   /\ UNCHANGED rolePermissions
              ELSE /\ Step(s, [p EXCEPT !.pc = "commit"], Db)
                   /\ rolePermissions' = [rolePermissions EXCEPT ![p.role] = @ \cup rows]
           /\ UNCHANGED <<users, now>>

(***************************************************************************)
(* The requests that meet: MaxInFlight of them arrive together over a      *)
(* small database under the full registry.                                 *)
(***************************************************************************)
ConcRequests ==
    << Arrived("deleteCompany", 1, 1, "true", Absent, "none", {}),
       Arrived("deleteCompany", 1, 1, "true", MaxCompanies, "none", {}),
       Arrived("deleteCompany", 2, 1, "undefined", Absent, "none", {}),
       Arrived("deleteCompany", 3, 1, "true", Absent, "none", {}),
       Arrived("deleteCustomer", 1, 1, "undefined", Absent, "none", {}),
       Arrived("deleteCustomer", 1, 1, "true", Absent, "none", {}),
       Arrived("deleteCustomer", 1, 1, "true", 2, "none", {}),
       Arrived("getCompanyById", 2, 1, "undefined", Absent, "none", {}),
       Arrived("getCompanyCustomers", 2, 1, "undefined", Absent, "none", {}),
       Arrived("getCustomerById", 2, 1, "undefined", Absent, "none", {}),
       Arrived("updateRolePermissions", 1, Absent, "undefined", Absent, "sales", {}),
       Arrived("updateRolePermissions", 1, Absent, "undefined", Absent, "sales",
               ReadGrants \cup {<<"reports", "read">>}),
       Arrived("updateRolePermissions", 1, Absent, "undefined", Absent, "manager", AllGrants),
       Arrived("updateRolePermissions", 2, Absent, "undefined", Absent, "sales", AllGrants),
       Arrived("updateUserRole", 1, 2, "undefined", Absent, "telecaller", {}) >>

\* Company 1 with one customer and no lead, or with two customers and a
\* lead on the first.
ConcLayouts ==
    { <<(<<1>>), Dealt(0, 1)>>, <<(<<1, 1>>), Dealt(1, 1)>> }

ConcInit ==
    /\ users = InitialUsers
    /\ rolePermissions = FullRegistry
    /\ \E layout \in ConcLayouts :
            /\ companies = InitDb(layout[1], layout[2], "none").companies
            /\ customers = InitDb(layout[1], layout[2], "none").customers
            /\ leads = InitDb(layout[1], layout[2], "none").leads
            /\ pre = InitDb(layout[1], layout[2], "none")
    /\ now = 2
    /\ req = NoRequest
    /\ res = errorHandler(Ok(pre, 0, <<>>))
    /\ sqlLog = <<>>
    /\ \E chosen \in [1..MaxInFlight -> DOMAIN ConcRequests] :
            /\ \A i \in 1..(MaxInFlight - 1) : chosen[i] <= chosen[i + 1]
            /\ inflight = [i \in 1..MaxInFlight |-> ConcRequests[chosen[i]]]

ConcNext ==
    \/ AuthenticateUser
    \/ AuthenticatePermissions
    \/ RouteMiddleware
    \/ AdminOnly
    \/ SelectTarget
    \/ ListCompanyCustomers
    \/ CountDependents
    \/ SelectSample
    \/ SelectReassignTarget
    \/ DirectDelete
    \/ Begin
    \/ ReassignDependents
    \/ CascadeLeads
    \/ CascadeDependents
    \/ SoftDeleteTarget
    \/ Commit
    \/ SelectUser
    \/ SelectRole
    \/ UpdateUser
    \/ DeleteGrants
    \/ DeleteGrantsUnblocked
    \/ InsertGrants

ConcSpec == ConcInit /\ [][ConcNext]_vars

(***************************************************************************)
(* Requests that race for the same rows: a delete against the delete of    *)
(* its reassignment target, and deleteUser against a create request of the *)
(* user being deleted. createCompany and deleteUser send every statement   *)
(* with db.query on the pool.                                              *)
(***************************************************************************)
\* checkPermission('companies', 'create') in front of createCompany; the
\* body passes the validators.
RouteCreate ==
    \E s \in DOMAIN inflight :
        LET p == inflight[s] IN
        /\ p.pc = "route" /\ p.op = "createCompany"
        /\ IF checkPermission(p.user, "companies", "create")
           THEN Step(s, [p EXCEPT !.pc = "insert"], Db)
           ELSE Step(s, Finish(p, Throw(Db, "authorization", <<>>)), Db)
        /\ UNCHANGED <<users, rolePermissions, now>>

\* createCompany: INSERT INTO companies (..., created_by) VALUES (..., req.user.id)
InsertCompanyRow ==
    \E s \in DOMAIN inflight :
        LET p == inflight[s] IN
        /\ p.pc = "insert"
        /\ Step(s, Finish(p, Created(Db, <<>>)), InsertCompany(Db, p.user.id))
        /\ UNCHANGED <<users, rolePermissions, now>>

\* deleteUser: if (req.user.role !== 'super_admin') throw authorization
DeleteUserAdminOnly ==
    \E s \in DOMAIN inflight :
        LET p == inflight[s] IN
        /\ p.pc = "route" /\ p.op = "deleteUser"
        /\ IF p.user.role # "super_admin"
           THEN Step(s, Finish(p, Throw(Db, "authorization", <<>>)), Db)
           ELSE Step(s, [p EXCEPT !.pc = "selectDeletedUser"], Db)
        /\ UNCHANGED <<users, rolePermissions, now>>

\* deleteUser: SELECT * FROM users WHERE id = $1 AND deleted_at IS NULL
DeleteUserSelect ==
    \E s \in DOMAIN inflight :
        LET p == inflight[s] IN
        /\ p.pc = "selectDeletedUser"
        /\ IF UserFound(p.id) THEN Step(s, [p EXCEPT !.pc = "selectUserRole"], Db)
           ELSE Step(s, Finish(p, Throw(Db, "not_found", <<>>)), Db)
        /\ UNCHANGED <<users, rolePermissions, now>>

\* deleteUser: SELECT r.name FROM roles r JOIN users u ... WHERE u.id = $1
DeleteUserSelectRole ==
    \E s \in DOMAIN inflight :
        LET p == inflight[s] IN
        /\ p.pc = "selectUserRole"
        /\ IF users[p.id].role = "super_admin"
           THEN Step(s, Finish(p, Throw(Db, "validation", <<>>)), Db)
           ELSE Step(s, [p EXCEPT !.pc = "countOwned"], Db)
        /\ UNCHANGED <<users, rolePermissions, now>>

\* deleteUser: the three COUNT(*) ... WHERE created_by = $1 AND deleted_at IS NULL
DeleteUserCountOwned ==
    \E s \in DOMAIN inflight :
        LET p == inflight[s] IN
        /\ p.pc = "countOwned"
        /\ IF OwnsActiveRows(Db, p.id)
           THEN Step(s, Finish(p, Throw(Db, "validation", <<>>)), Db)
           ELSE Step(s, [p EXCEPT !.pc = "softDeleteUser"], Db)
        /\ UNCHANGED <<users, rolePermissions, now>>

\* deleteUser: UPDATE users SET deleted_at = NOW() WHERE id = $1, then the
\* user's sessions are removed and the success response is sent.
DeleteUserSoftDelete ==
    \E s \in DOMAIN inflight :
        LET p == inflight[s] IN
        /\ p.pc = "softDeleteUser"
        /\ Step(s, Finish(p, Ok(Db, 0, <<>>)), Db)
        /\ users' = SoftDeleteUser(users, p.id, now)
        /\ now' = now + 1
        /\ UNCHANGED rolePermissions

\* User 4, of role sales, has created nothing yet.
RaceUsers ==
    InitialUsers @@ (4 :> [role |-> "sales", email |-> 4, deletedAt |-> NULL])

RaceRequests ==
    << Arrived("deleteCompany", 1, 1, "true", MaxCompanies, "none", {}),
       Arrived("deleteCompany", 1, MaxCompanies, "undefined", Absent, "none", {}),
       Arrived("deleteCustomer", 1, 1, "true", 2, "none", {}),
       Arrived("deleteCustomer", 1, 2, "undefined", Absent, "none", {}),
       Arrived("createCompany", 3, Absent, "undefined", Absent, "none", {}),
       Arrived("createCompany", 4, Absent, "undefined", Absent, "none", {}),
       Arrived("deleteUser", 1, 1, "undefined", Absent, "none", {}),
       Arrived("deleteUser", 1, 2, "undefined", Absent, "none", {}),
       Arrived("deleteUser", 1, 4, "undefined", Absent, "none", {}),
       Arrived("deleteUser", 2, 4, "undefined", Absent, "none", {}) >>

RaceInit ==
    /\ users = RaceUsers
    /\ rolePermissions = FullRegistry
    /\ \E layout \in ConcLayouts :
            /\ companies = InitDb(layout[1], layout[2], "none").companies
            /\ customers = InitDb(layout[1], layout[2], "none").customers
            /\ leads = InitDb(layout[1], layout[2], "none").leads
            /\ pre = InitDb(layout[1], layout[2], "none")
    /\ now = 2
    /\ req = NoRequest
    /\ res = errorHandler(Ok(pre, 0, <<>>))
    /\ sqlLog = <<>>
    /\ \E chosen \in [1..MaxInFlight -> DOMAIN RaceRequests] :
            /\ \A i \in 1..(MaxInFlight - 1) : chosen[i] <= chosen[i + 1]
            /\ inflight = [i \in 1..MaxInFlight |-> RaceRequests[chosen[i]]]

RaceNext ==
    \/ AuthenticateUser
    \/ AuthenticatePermissions
    \/ RouteMiddleware
    \/ SelectTarget
    \/ CountDependents
    \/ SelectSample
    \/ SelectReassignTarget
    \/ DirectDelete
    \/ Begin
    \/ ReassignDependents
    \/ SoftDeleteTarget
    \/ Commit
    \/ RouteCreate
    \/ InsertCompanyRow
    \/ DeleteUserAdminOnly
    \/ DeleteUserSelect
    \/ DeleteUserSelectRole
    \/ DeleteUserCountOwned
    \/ DeleteUserSoftDelete

RaceSpec == RaceInit /\ [][RaceNext]_vars

(***************************************************************************)
(* Vocabulary of the properties. Everything below reads the request, the   *)
(* response, the statement log and the tables before (pre) and after the   *)
(* request; none of it goes through the handlers' own operators.           *)
(***************************************************************************)
ReadOps == {"getCompanyById", "getCustomerById", "getLeadById"}
UpdateOps == {"updateCompany", "updateCustomer", "updateLead"}
DeleteOps == {"deleteCompany", "deleteCustomer", "deleteLead"}
EntityOps == ReadOps \cup UpdateOps \cup DeleteOps

ReqResource ==
    IF req.op \in {"getCompanyById", "updateCompany", "deleteCompany"} THEN "companies"
    ELSE IF req.op \in {"getCustomerById", "updateCustomer", "deleteCustomer"} THEN "customers"
    ELSE "leads"

ReqAction ==
    IF req.op \in ReadOps THEN "read"
    ELSE IF req.op \in UpdateOps THEN "update"
    ELSE "delete"

\* The table the request addresses, before and after it.
TargetTableBefore == pre[ReqResource]
TargetTableAfter == Db[ReqResource]

TargetExisted == req.id \in DOMAIN TargetTableBefore
TargetWasActive == TargetExisted /\ TargetTableBefore[req.id].deletedAt = NULL

ActorRole == users[req.actor].role
ActorIsOwner == TargetExisted /\ TargetTableBefore[req.id].createdBy = req.actor
ActorGranted == <<ReqResource, ReqAction>> \in rolePermissions[ActorRole]

Refused == res.status = 403
Succeeded == res.status = 200
ValidationError == res.status = 400
RowsUnchanged == Db = pre

\* The active dependents the target had when the request arrived.
DependentsBefore ==
    IF req.op = "deleteCompany"
    THEN {c \in DOMAIN pre.customers :
            pre.customers[c].companyId = req.id /\ pre.customers[c].deletedAt = NULL}
    ELSE {l \in DOMAIN pre.leads :
            pre.leads[l].customerId = req.id /\ pre.leads[l].deletedAt = NULL}

\* The foreign key of dependent d, before and after the request.
ParentBefore(d) ==
    IF req.op = "deleteCompany" THEN pre.customers[d].companyId ELSE pre.leads[d].customerId
ParentAfter(d) ==
    IF req.op = "deleteCompany" THEN customers[d].companyId ELSE leads[d].customerId

\* A deleteCompany or deleteCustomer that got past authentication and
\* authorization and found its target active.
CascadeOps == {"deleteCompany", "deleteCustomer"}
AdmittedDelete ==
    /\ req.op \in CascadeOps
    /\ TargetWasActive
    /\ res.status \notin {401, 403}

(***************************************************************************)
(* C1. An actor of role super_admin is never refused a get-by-id, update   *)
(* or delete of an active company, customer or lead: the request reaches   *)
(* the handler and is not answered 403, whoever created the row and        *)
(* whatever the registry grants.                                           *)
(***************************************************************************)
C1_SuperAdminAlwaysAuthorized ==
    (req.op \in EntityOps /\ ActorRole = "super_admin" /\ TargetWasActive)
        => (~Refused /\ sqlLog # <<>>)

C1_Witness ==
    /\ req.op = "deleteCustomer"
    /\ ActorRole = "super_admin"
    /\ rolePermissions["super_admin"] = {}
    /\ TargetWasActive /\ ~ActorIsOwner
    /\ Succeeded

(***************************************************************************)
(* C2. An actor that created an active company, customer or lead is        *)
(* allowed to update or delete it even when its role has no grant for the  *)
(* resource and action.                                                    *)
(***************************************************************************)
C2_OwnerAlwaysAllowed ==
    (req.op \in (UpdateOps \cup DeleteOps) /\ ActorIsOwner /\ TargetWasActive)
        => ~Refused

(***************************************************************************)
(* C3. An actor that is neither super_admin nor the creator of the target  *)
(* is allowed a get-by-id, update or delete if and only if its role is     *)
(* granted the action on the resource; without the grant the answer is the *)
(* authorization error 403 and no other error.                             *)
(***************************************************************************)
C3_NonOwnerAllowedIffGranted ==
    (req.op \in EntityOps /\ ActorRole # "super_admin" /\ TargetExisted /\ ~ActorIsOwner)
        => /\ ActorGranted => (~Refused /\ sqlLog # <<>>)
           /\ ~ActorGranted => Refused

C3_Witness ==
    /\ req.op = "updateLead"
    /\ ActorRole # "super_admin"
    /\ TargetWasActive /\ ~ActorIsOwner
    /\ ~ActorGranted
    /\ \A a \in Actions : <<"leads", a>> \notin rolePermissions[ActorRole]
    /\ Refused

(***************************************************************************)
(* C4. A deleteCompany or deleteCustomer answered with an authorization    *)
(* error has run no dependency query (no COUNT, no sample, no target       *)
(* lookup) and no write, and every row is as it was.                       *)
(***************************************************************************)
C4_AuthorizationBeforeDependencies ==
    (req.op \in CascadeOps /\ Refused)
        => /\ \A i \in 1..Len(sqlLog) : sqlLog[i] \in {"SELECT company", "SELECT customer"}
           /\ RowsUnchanged

C4_Witness ==
    /\ req.op = "deleteCompany"
    /\ Refused
    /\ TargetWasActive
    /\ DependentsBefore # {}
    /\ req.force = "true"

(***************************************************************************)
(* C5. An admitted deleteCompany (deleteCustomer) whose target has no      *)
(* active customer (lead) succeeds whatever force and reassignTo are, sets *)
(* deletedAt on the target and changes nothing else in any table.          *)
(***************************************************************************)
C5_DirectDeleteTouchesTargetOnly ==
    (AdmittedDelete /\ DependentsBefore = {})
        => /\ Succeeded
           /\ TargetTableAfter[req.id].deletedAt # NULL
           /\ TargetTableAfter[req.id].createdBy = TargetTableBefore[req.id].createdBy
           /\ DOMAIN TargetTableAfter = DOMAIN TargetTableBefore
           /\ \A x \in DOMAIN TargetTableAfter \ {req.id} :
                 TargetTableAfter[x] = TargetTableBefore[x]
           /\ \A t \in {"companies", "customers", "leads"} \ {ReqResource} : Db[t] = pre[t]

\* The target had a soft-deleted dependent, and the request named force and
\* a reassignment target that does not exist.
C5_Witness ==
    /\ AdmittedDelete /\ DependentsBefore = {}
    /\ req.op = "deleteCustomer"
    /\ \E l \in DOMAIN pre.leads :
         pre.leads[l].customerId = req.id /\ pre.leads[l].deletedAt # NULL
    /\ req.force = "true"
    /\ req.reassignTo \notin DOMAIN pre.customers /\ req.reassignTo # Absent
    /\ Succeeded

(***************************************************************************)
(* C6. An admitted delete of a target with N > 0 active dependents and     *)
(* force other than 'true' is answered Blocked: the payload's total is N   *)
(* and its sample holds exactly min(N, 5) rows, each an active dependent   *)
(* of the target.                                                          *)
(***************************************************************************)
C6_BlockedReportsCountAndSample ==
    (AdmittedDelete /\ DependentsBefore # {} /\ req.force # "true")
        => /\ res.errors.total = Cardinality(DependentsBefore)
           /\ Cardinality(res.errors.sample) =
                 (IF Cardinality(DependentsBefore) < 5
                  THEN Cardinality(DependentsBefore) ELSE 5)
           /\ res.errors.sample \subseteq DependentsBefore

C6_Witness ==
    /\ AdmittedDelete /\ req.force # "true"
    /\ Cardinality(DependentsBefore) > 5
    /\ Cardinality(res.errors.sample) = 5
    /\ res.errors.total = Cardinality(DependentsBefore)

(***************************************************************************)
(* C7. A Blocked delete is answered as a validation error (400) carrying   *)
(* the remediation payload (the two strategies), and changes no row.       *)
(***************************************************************************)
C7_BlockedIsValidationAndChangesNothing ==
    (AdmittedDelete /\ DependentsBefore # {} /\ req.force # "true")
        => /\ ValidationError
           /\ Cardinality(res.errors.solutions) = 2
           /\ RowsUnchanged

C7_Witness ==
    /\ AdmittedDelete /\ DependentsBefore # {} /\ req.force = "false"
    /\ req.op = "deleteCustomer"
    /\ ValidationError
    /\ res.errors.total = 3

(***************************************************************************)
(* C8. A successful Reassign delete of a target with N active dependents   *)
(* re-points exactly those N dependents to the reassignment target, leaves *)
(* the reassignment target active and soft-deletes the original.           *)
(***************************************************************************)
ReassignSucceeded ==
    /\ AdmittedDelete /\ DependentsBefore # {}
    /\ req.force = "true" /\ req.reassignTo # Absent
    /\ Succeeded

C8_ReassignMovesDependents ==
    ReassignSucceeded
        => /\ \A d \in DependentsBefore : ParentAfter(d) = req.reassignTo
           /\ \A d \in DOMAIN pre[IF req.op = "deleteCompany" THEN "customers" ELSE "leads"]
                    \ DependentsBefore : ParentAfter(d) = ParentBefore(d)
           /\ res.reported = Cardinality(DependentsBefore)
           /\ req.reassignTo \in DOMAIN TargetTableAfter
           /\ TargetTableAfter[req.reassignTo].deletedAt = NULL
           /\ TargetTableAfter[req.id].deletedAt # NULL

(***************************************************************************)
(* C9. An admitted delete with force=true and a reassignTo id that names   *)
(* no row or a soft-deleted row, on a target with active dependents, is    *)
(* answered with a validation error and changes no row.                    *)
(***************************************************************************)
C9_BadReassignTargetRejected ==
    (/\ AdmittedDelete /\ DependentsBefore # {}
     /\ req.force = "true" /\ req.reassignTo # Absent
     /\ \/ req.reassignTo \notin DOMAIN TargetTableBefore
        \/ TargetTableBefore[req.reassignTo].deletedAt # NULL)
        => (ValidationError /\ RowsUnchanged)

\* The reassignment target exists and is soft-deleted.
C9_Witness ==
    /\ AdmittedDelete /\ DependentsBefore # {}
    /\ req.force = "true"
    /\ req.reassignTo \in DOMAIN TargetTableBefore
    /\ TargetTableBefore[req.reassignTo].deletedAt # NULL
    /\ ValidationError /\ RowsUnchanged

(***************************************************************************)
(* C10. An admitted delete with force=true whose reassignTo id is the id   *)
(* of the entity being deleted is rejected with a validation error and     *)
(* changes no row, so no active dependent points at a soft-deleted parent. *)
(***************************************************************************)
C10_SelfReassignRejected ==
    (/\ AdmittedDelete /\ DependentsBefore # {}
     /\ req.force = "true" /\ req.reassignTo = req.id)
        => (ValidationError /\ RowsUnchanged)

(***************************************************************************)
(* C11. A successful ForceCascade delete of company C (force=true, no      *)
(* reassignment target) leaves C, every customer that was active under C   *)
(* and every active lead of those customers soft-deleted, and changes no   *)
(* company, customer or lead outside that subtree.                         *)
(***************************************************************************)
ForceCascadeSucceeded ==
    /\ AdmittedDelete /\ DependentsBefore # {}
    /\ req.force = "true" /\ req.reassignTo = Absent
    /\ Succeeded

\* The leads that were active under an active customer of the company.
CascadedLeads ==
    {l \in DOMAIN pre.leads :
        pre.leads[l].customerId \in DependentsBefore /\ pre.leads[l].deletedAt = NULL}

C11_ForceCascadeCompanySubtree ==
    (ForceCascadeSucceeded /\ req.op = "deleteCompany")
        => /\ companies[req.id].deletedAt # NULL
           /\ \A c \in DependentsBefore : customers[c].deletedAt # NULL
           /\ \A l \in CascadedLeads : leads[l].deletedAt # NULL
           /\ \A c \in DOMAIN pre.companies \ {req.id} : companies[c] = pre.companies[c]
           /\ \A c \in DOMAIN pre.customers \ DependentsBefore : customers[c] = pre.customers[c]
           /\ \A l \in DOMAIN pre.leads \ CascadedLeads : leads[l] = pre.leads[l]

(***************************************************************************)
(* C12. When the database rejects a statement of a Reassign or             *)
(* ForceCascade transaction (BEGIN, an UPDATE, the final soft-delete of    *)
(* the parent or COMMIT), the handler rolls the transaction back, the      *)
(* caller is answered with the database's error, and every company,        *)
(* customer and lead row is as it was before the request.                  *)
(***************************************************************************)
\* The request reached one of the two transactions and the database
\* rejected one of its statements.
TransactionFailed ==
    /\ AdmittedDelete /\ DependentsBefore # {}
    /\ req.force = "true"
    /\ req.reassignTo # Absent =>
          (req.reassignTo \in DOMAIN TargetTableBefore
           /\ TargetTableBefore[req.reassignTo].deletedAt = NULL)
    /\ req.failAt \in 1..(IF req.op = "deleteCompany" /\ req.reassignTo = Absent THEN 5 ELSE 4)

C12_FailedTransactionRollsBack ==
    TransactionFailed
        => /\ RowsUnchanged
           /\ res.status = 500
           /\ res.message = "DatabaseError"
           /\ sqlLog[Len(sqlLog)] = "ROLLBACK"

\* The company cascade had soft-deleted leads and customers when its last
\* UPDATE, the soft-delete of the company, was rejected.
C12_Witness ==
    /\ TransactionFailed
    /\ req.op = "deleteCompany" /\ req.reassignTo = Absent
    /\ req.failAt = 4
    /\ \E l \in DOMAIN pre.leads : pre.leads[l].customerId \in DependentsBefore
    /\ RowsUnchanged /\ res.status = 500

(***************************************************************************)
(* C13. deletedAt is write-once: once the deletedAt of a company, customer *)
(* or lead is non-null, no request changes it, neither back to null nor to *)
(* another timestamp.                                                      *)
(***************************************************************************)
WriteOnce(before, after) ==
    \A x \in DOMAIN before :
        before[x].deletedAt # NULL
            => (x \in DOMAIN after /\ after[x].deletedAt = before[x].deletedAt)

C13_DeletedAtWriteOnce ==
    [][/\ WriteOnce(companies, companies')
       /\ WriteOnce(customers, customers')
       /\ WriteOnce(leads, leads')]_vars

(***************************************************************************)
(* C14. A get-by-id, update or delete request on a soft-deleted company,   *)
(* customer or lead ends with NotFound (404) and changes no row, whoever   *)
(* the actor is; list reads never return a soft-deleted row.               *)
(***************************************************************************)
ListOps == {"getAllCompanies", "getAllCustomers", "getAllLeads", "getCompanyCustomers"}

\* The table whose rows a list read returns.
ListedTable ==
    IF req.op = "getAllCompanies" THEN pre.companies
    ELSE IF req.op = "getAllLeads" THEN pre.leads
    ELSE pre.customers

ListsOnlyActiveRows ==
    (req.op \in ListOps /\ Succeeded)
        => \A x \in res.rows : x \in DOMAIN ListedTable /\ ListedTable[x].deletedAt = NULL

TargetWasDeleted == TargetExisted /\ TargetTableBefore[req.id].deletedAt # NULL

ActorAdmitted == ActorRole = "super_admin" \/ ActorGranted

AllDone == \A s \in DOMAIN inflight : inflight[s].pc = "done"

\* The tables without their timestamps: which rows are deleted, and the
\* foreign keys.
Shape(db) ==
    [t \in Tables |->
        [x \in DOMAIN db[t] |->
            [db[t][x] EXCEPT !.deletedAt = IF @ = NULL THEN 0 ELSE 1]]]

\* What the caller can tell from a response.
Answer(r) ==
    [status |-> r.status, reported |-> r.reported, total |-> r.errors.total, rows |-> r.rows]

\* The request p served alone, from authenticate to the response, on the
\* tables db.
Alone(p, db, t) ==
    Authenticated(p.actor,
        IF p.op = "deleteCompany"
        THEN Route(authenticate(p.actor), "companies", "delete",
                   deleteCompany(authenticate(p.actor), db, p.id, p.force, p.reassignTo,
                                 {}, t, 0), db)
        ELSE IF p.op = "deleteCustomer"
        THEN Route(authenticate(p.actor), "customers", "delete",
                   deleteCustomer(authenticate(p.actor), db, p.id, p.force, p.reassignTo,
                                  {}, t, 0), db)
        ELSE IF p.op = "getCompanyById"
        THEN Route(authenticate(p.actor), "companies", "read",
                   getCompanyById(authenticate(p.actor), db, p.id), db)
        ELSE IF p.op = "getCustomerById"
        THEN Route(authenticate(p.actor), "customers", "read",
                   getCustomerById(authenticate(p.actor), db, p.id), db)
        ELSE Route(authenticate(p.actor), "companies", "read",
                   getCompanyCustomers(authenticate(p.actor), db, p.id), db))

\* The final tables and the two answers when request a is served entirely
\* before request b, and the other way round, from the tables both found.
Serial(a, b) ==
    LET first == Alone(inflight[a], pre, 2)
        second == Alone(inflight[b], first.db, 3)
    IN [tables |-> Shape(second.db),
        answers |-> (a :> Answer(errorHandler(first))) @@ (b :> Answer(errorHandler(second)))]

Outcome(a, b) ==
    [tables |-> Shape(Db),
     answers |-> (a :> Answer(inflight[a].res)) @@ (b :> Answer(inflight[b].res))]

ForcedCompanyDelete(b) ==
    /\ inflight[b].op = "deleteCompany" /\ inflight[b].force = "true"
    /\ inflight[b].actor = 1

(***************************************************************************)
(* C15. A deleteCustomer on customer Cu that runs concurrently with a      *)
(* forced deleteCompany (Reassign or ForceCascade) on Cu's company is      *)
(* serialized with it: the final tables and the two responses are those of *)
(* serving one request entirely before the other.                          *)
(***************************************************************************)
C15_CustomerDeleteSerializedWithCompanyDelete ==
    \A a, b \in DOMAIN inflight :
        (/\ AllDone
         /\ inflight[a].op = "deleteCustomer"
         /\ ForcedCompanyDelete(b)
         /\ pre.customers[inflight[a].id].companyId = inflight[b].id)
            => Outcome(a, b) \in {Serial(a, b), Serial(b, a)}

(***************************************************************************)
(* C16. A read request (getCompanyById, getCompanyCustomers,               *)
(* getCustomerById) that runs concurrently with a Reassign or ForceCascade *)
(* of a company sees none or all of the transaction's writes: its answer   *)
(* is the one it gets before the forced delete or the one it gets after.   *)
(***************************************************************************)
ConcReadOps == {"getCompanyById", "getCompanyCustomers", "getCustomerById"}

C16_ReadsSeeNoPartialCascade ==
    \A a, b \in DOMAIN inflight :
        (/\ AllDone
         /\ inflight[a].op \in ConcReadOps
         /\ ForcedCompanyDelete(b))
            => Outcome(a, b) \in {Serial(a, b), Serial(b, a)}

(***************************************************************************)
(* C17. An authentication that runs while updateRolePermissions(role, P)   *)
(* is under way computes for that role the complete old set or the         *)
(* complete new set of a committed update, never the empty or partial set  *)
(* the role has between the DELETE and the INSERT.                         *)
(***************************************************************************)
\* req.user.permissions as a set of <<resource, action>>.
GrantsOfUser(user) ==
    UNION {{<<r, a>> : a \in user.permissions[r]} : r \in DOMAIN user.permissions}

HasAuthenticated(p) == p.pc \notin {"authUser", "authPermissions"} /\ p.user # NoUser

\* The sets the role has held: the one it started with and the new set of
\* every updateRolePermissions that has committed.
CommittedSets(role) ==
    {FullRegistry[role]}
    \cup {inflight[u].grants \cap AllGrants :
            u \in {v \in DOMAIN inflight :
                     /\ inflight[v].op = "updateRolePermissions"
                     /\ inflight[v].role = role
                     /\ inflight[v].pc = "done" /\ inflight[v].res.status = 200}}

C17_AuthenticationSeesWholeSets ==
    \A s \in DOMAIN inflight :
        HasAuthenticated(inflight[s])
            => GrantsOfUser(inflight[s].user) \in CommittedSets(inflight[s].user.role)

\* A request of a sales user has authenticated with the old set while the
\* update of role sales has run its DELETE and not yet its INSERT.
C17_Witness ==
    \E s, u \in DOMAIN inflight :
        /\ inflight[u].op = "updateRolePermissions" /\ inflight[u].pc = "insertGrants"
        /\ inflight[u].role = "sales"
        /\ inflight[u].grantsDeleted = FullRegistry["sales"]
        /\ HasAuthenticated(inflight[s]) /\ inflight[s].user.role = "sales"
        /\ GrantsOfUser(inflight[s].user) = FullRegistry["sales"]
        /\ inflight[s].pc = "route"

(***************************************************************************)
(* C18. req.user.permissions is fixed at authentication: whatever          *)
(* updateRolePermissions or updateUserRole commits while the request is in *)
(* flight, the route middleware and the handler decide by the role and the *)
(* set the request authenticated with, and a request carries a new set     *)
(* only when it authenticated after that set's commit.                     *)
(***************************************************************************)
RouteAllows(p) ==
    \/ p.user.role = "super_admin"
    \/ <<ResourceOf(p.op), ActionOf(p.op)>> \in GrantsOfUser(p.user)

RefusedInFlight(p) == p.pc = "done" /\ p.res.status = 403

C18_DecisionsFollowAuthentication ==
    \A s \in DOMAIN inflight :
        LET p == inflight[s] IN
        (HasAuthenticated(p) /\ p.pc # "route")
            => /\ p.op \in ConcEntityOps => (RefusedInFlight(p) <=> ~RouteAllows(p))
               /\ p.op \in ConcAdminOps => (RefusedInFlight(p) <=> p.user.role # "super_admin")
               /\ (p.pc = "done" /\ p.op # "updateRolePermissions") => p.res.status # 500
               /\ GrantsOfUser(p.user) # FullRegistry[p.user.role]
                     => \E u \in DOMAIN inflight :
                           /\ inflight[u].op = "updateRolePermissions"
                           /\ inflight[u].pc = "done" /\ inflight[u].res.status = 200
                           /\ inflight[u].role = p.user.role
                           /\ GrantsOfUser(p.user) = inflight[u].grants \cap AllGrants

\* A sales user's request was served to the end with the grants it
\* authenticated with, after an update left role sales without any grant.
C18_Witness ==
    \E s, u \in DOMAIN inflight :
        /\ inflight[u].op = "updateRolePermissions"
        /\ inflight[u].pc = "done" /\ inflight[u].res.status = 200
        /\ rolePermissions["sales"] = {}
        /\ inflight[s].op \in ConcEntityOps
        /\ inflight[s].user.role = "sales"
        /\ GrantsOfUser(inflight[s].user) = FullRegistry["sales"]
        /\ inflight[s].pc = "done" /\ inflight[s].res.status = 200

(***************************************************************************)
(* C19. The count a successful Reassign delete reports is the number of    *)
(* dependents its UPDATE re-pointed, also when other requests delete or    *)
(* move dependents of the target between the count taken before the        *)
(* transaction and the transaction.                                        *)
(***************************************************************************)
ReassignCommitted(p) ==
    /\ p.op \in {"deleteCompany", "deleteCustomer"}
    /\ p.force = "true" /\ p.reassignTo # Absent
    /\ p.pc = "done" /\ p.res.status = 200
    /\ p.count > 0

DescendantsRemoved ==
    IF req.op = "deleteCompany"
    THEN Cardinality(DependentsBefore) + Cardinality(CascadedLeads)
    ELSE Cardinality(DependentsBefore)

CreateOps == {"createCompany", "createCustomer", "createLead"}

\* The rows of table `after` that table `before` does not hold.
NewRows(before, after) == DOMAIN after \ DOMAIN before

\* Every row of `before` is in `after` with the createdBy it had.
CreatedByKept(before, after) ==
    \A x \in DOMAIN before : x \in DOMAIN after /\ after[x].createdBy = before[x].createdBy

\* Every new row of `after` carries `actor` as its createdBy.
CreatedByActor(before, after, actor) ==
    \A x \in NewRows(before, after) : after[x].createdBy = actor

(***************************************************************************)
(* C21. A company, customer or lead comes into being only by a create      *)
(* request of an authenticated actor, with createdBy equal to that         *)
(* actor's id; and no request (update, reassignment, delete, cascade)      *)
(* changes the createdBy of a row.                                         *)
(***************************************************************************)
C21_CreatedByIsCreatorForever ==
    [][/\ CreatedByKept(companies, companies')
       /\ CreatedByKept(customers, customers')
       /\ CreatedByKept(leads, leads')
       /\ CreatedByActor(companies, companies', req'.actor)
       /\ CreatedByActor(customers, customers', req'.actor)
       /\ CreatedByActor(leads, leads', req'.actor)
       /\ (NewRows(companies, companies') \cup NewRows(customers, customers')
             \cup NewRows(leads, leads')) # {}
            => (req'.op \in CreateOps /\ UserFound(req'.actor) /\ res'.status = 201)]_vars

\* An actor created a customer under a company another user created.
C21_Witness ==
    /\ req.op = "createCustomer"
    /\ res.status = 201
    /\ NewRows(pre.customers, customers) # {}
    /\ \A x \in NewRows(pre.customers, customers) :
          /\ customers[x].createdBy = req.actor
          /\ companies[customers[x].companyId].createdBy # req.actor

(***************************************************************************)
(* C22. User creation is admin only: a user row, and in particular one of  *)
(* role super_admin, comes into being only by a request of an              *)
(* authenticated actor of role super_admin; a request of another actor or  *)
(* without authentication creates no user.                                 *)
(***************************************************************************)
C22_OnlyAdminCreatesUsers ==
    [][NewRows(users, users') # {}
         => /\ UserFound(req'.actor)
            /\ users[req'.actor].role = "super_admin"]_vars

(***************************************************************************)
(* C23. When a Reassign transaction commits, the target it re-pointed the  *)
(* dependents to is an active row, also when a concurrent request deletes  *)
(* the target after the handler's target-existence check.                  *)
(***************************************************************************)
\* The request is a Reassign delete whose UPDATE re-pointed dependents.
ReassignMoved(p) ==
    /\ p.op \in {"deleteCompany", "deleteCustomer"}
    /\ p.force = "true" /\ p.reassignTo # Absent
    /\ p.affected > 0

TargetActive(p, cs, cu) ==
    IF p.op = "deleteCompany" THEN cs[p.reassignTo].deletedAt = NULL
    ELSE cu[p.reassignTo].deletedAt = NULL

C23_ReassignTargetActiveAtCommit ==
    [][\A s \in DOMAIN inflight :
          (/\ ReassignMoved(inflight[s])
           /\ inflight[s].pc = "commit" /\ inflight'[s].pc = "done")
             => TargetActive(inflight[s], companies', customers')]_vars

(***************************************************************************)
(* C24. A successful Reassign delete of company C1 to C2 writes the        *)
(* companyId of the customers that were active under C1 and the deletedAt  *)
(* of C1, and nothing else: no lead changes (those of the moved customers  *)
(* keep customerId and deletedAt), the customers of C1 that were already   *)
(* soft-deleted and the customers of every other company are as they were, *)
(* and so is every company other than C1, C2 among them.                   *)
(***************************************************************************)
C24_ReassignCompanyFrame ==
    (ReassignSucceeded /\ req.op = "deleteCompany")
        => /\ leads = pre.leads
           /\ DOMAIN customers = DOMAIN pre.customers
           /\ \A c \in DependentsBefore :
                 customers[c] = [pre.customers[c] EXCEPT !.companyId = req.reassignTo]
           /\ \A c \in DOMAIN pre.customers \ DependentsBefore :
                 customers[c] = pre.customers[c]
           /\ DOMAIN companies = DOMAIN pre.companies
           /\ \A c \in DOMAIN pre.companies \ {req.id} : companies[c] = pre.companies[c]
           /\ companies[req.id].createdBy = pre.companies[req.id].createdBy
           /\ companies[req.id].deletedAt # NULL

\* C1 had an active customer with a lead and a soft-deleted customer, and
\* another company, the target, had a customer of its own.
C24_Witness ==
    /\ ReassignSucceeded /\ req.op = "deleteCompany"
    /\ req.reassignTo # req.id
    /\ \E l \in DOMAIN pre.leads : pre.leads[l].customerId \in DependentsBefore
    /\ \E c \in DOMAIN pre.customers :
          pre.customers[c].companyId = req.id /\ pre.customers[c].deletedAt # NULL
    /\ \E c \in DOMAIN pre.customers : pre.customers[c].companyId = req.reassignTo
    /\ \A c \in DependentsBefore : customers[c].companyId = req.reassignTo

(***************************************************************************)
(* C25. A successful ForceCascade delete of customer Cu (force=true, no    *)
(* reassignment target) soft-deletes Cu and every lead that was active     *)
(* with customerId = Cu, in one transaction, and leaves every company      *)
(* (Cu's among them), every other customer and every other lead unchanged. *)
(***************************************************************************)
C25_ForceCascadeCustomerFrame ==
    (ForceCascadeSucceeded /\ req.op = "deleteCustomer")
        => /\ customers[req.id].deletedAt # NULL
           /\ customers[req.id].companyId = pre.customers[req.id].companyId
           /\ customers[req.id].createdBy = pre.customers[req.id].createdBy
           /\ \A l \in DependentsBefore :
                 /\ leads[l].deletedAt # NULL
                 /\ leads[l].deletedAt = customers[req.id].deletedAt
                 /\ leads[l].customerId = req.id
                 /\ leads[l].createdBy = pre.leads[l].createdBy
           /\ companies = pre.companies
           /\ DOMAIN customers = DOMAIN pre.customers
           /\ \A c \in DOMAIN pre.customers \ {req.id} : customers[c] = pre.customers[c]
           /\ DOMAIN leads = DOMAIN pre.leads
           /\ \A l \in DOMAIN pre.leads \ DependentsBefore : leads[l] = pre.leads[l]
           /\ sqlLog[Len(sqlLog) - 3] = "BEGIN"
           /\ sqlLog[Len(sqlLog)] = "COMMIT"
           /\ \A i \in 1..Len(sqlLog) :
                 sqlLog[i] \in {"UPDATE leads SET deleted_at", "UPDATE customers SET deleted_at"}
                    => i \in {Len(sqlLog) - 2, Len(sqlLog) - 1}

\* Cu had several active leads, and another customer had an active lead.
C25_Witness ==
    /\ ForceCascadeSucceeded /\ req.op = "deleteCustomer"
    /\ Cardinality(DependentsBefore) >= 2
    /\ \E l \in DOMAIN pre.leads :
          pre.leads[l].customerId # req.id /\ pre.leads[l].deletedAt = NULL
    /\ \A l \in DependentsBefore : leads[l].deletedAt # NULL
    /\ customers[req.id].deletedAt # NULL

(***************************************************************************)
(* C26. In a company ForceCascade the writes come in the order leads,      *)
(* customers, company, all of them between one BEGIN and one COMMIT: at no *)
(* statement of the transaction is a lead still active whose customer the  *)
(* transaction has already soft-deleted, and the company is marked last,   *)
(* once the customers are.                                                 *)
(***************************************************************************)
CompanyCascade(p) ==
    /\ p.op = "deleteCompany" /\ p.force = "true" /\ p.reassignTo = Absent
    /\ p.pc \in {"cascadeLeads", "cascade", "softDelete", "commit"}

\* The rows of table t the open transaction of p has soft-deleted.
MarkedBy(p, t) == {x \in DOMAIN p.written[t] : p.written[t][x].deletedAt # NULL}

C26_CascadeMarksLeadsThenCustomersThenCompany ==
    \A s \in DOMAIN inflight :
        LET p == inflight[s] IN
        CompanyCascade(p)
            => /\ p.txOpen
               /\ \A l \in DOMAIN leads :
                     View(p).leads[l].customerId \in MarkedBy(p, "customers")
                        => View(p).leads[l].deletedAt # NULL
               /\ MarkedBy(p, "customers") # {} => p.pc \in {"softDelete", "commit"}
               /\ MarkedBy(p, "companies") # {} => p.pc = "commit"
               /\ p.pc = "commit"
                     => /\ MarkedBy(p, "companies") = {p.id}
                        /\ ActiveCustomersOf(View(p), p.id) = {}

\* The transaction has marked a lead and the two customers of the company,
\* and the company is still to be marked.
C26_Witness ==
    \E s \in DOMAIN inflight :
        /\ CompanyCascade(inflight[s])
        /\ inflight[s].pc = "softDelete"
        /\ MarkedBy(inflight[s], "leads") # {}
        /\ Cardinality(MarkedBy(inflight[s], "customers")) = 2
        /\ companies[inflight[s].id].deletedAt = NULL
        /\ \A c \in MarkedBy(inflight[s], "customers") : customers[c].deletedAt = NULL

(***************************************************************************)
(* C27. Soft referential integrity: after any sequence of create, update   *)
(* and delete requests, no active customer has a companyId naming a        *)
(* soft-deleted company and no active lead has a customerId naming a       *)
(* soft-deleted customer.                                                  *)
(***************************************************************************)
C27_ActiveRowsHaveActiveParents ==
    /\ \A c \in DOMAIN customers :
          (customers[c].deletedAt = NULL /\ customers[c].companyId \in DOMAIN companies)
             => companies[customers[c].companyId].deletedAt = NULL
    /\ \A l \in DOMAIN leads :
          (leads[l].deletedAt = NULL /\ leads[l].customerId \in DOMAIN customers)
             => customers[leads[l].customerId].deletedAt = NULL

(***************************************************************************)
(* C28. When two delete requests for the same active company (or customer) *)
(* run concurrently, at most one of them reports success, and the other    *)
(* ends with NotFound.                                                     *)
(***************************************************************************)
\* Requests a and b are the same delete, sent twice, of a row that was
\* active when they arrived.
SameDelete(a, b) ==
    /\ a # b
    /\ inflight[a].op \in {"deleteCompany", "deleteCustomer"}
    /\ inflight[a].op = inflight[b].op /\ inflight[a].id = inflight[b].id
    /\ inflight[a].actor = inflight[b].actor
    /\ inflight[a].force = inflight[b].force
    /\ inflight[a].reassignTo = inflight[b].reassignTo
    /\ pre[ResourceOf(inflight[a].op)][inflight[a].id].deletedAt = NULL

C28_OneOfTwoDeletesSucceeds ==
    \A a, b \in DOMAIN inflight :
        (AllDone /\ SameDelete(a, b) /\ inflight[a].res.status = 200)
            => inflight[b].res.status = 404

(***************************************************************************)
(* C29. Every active company, customer and lead has an active user as its  *)
(* createdBy, after any sequence of requests, sequential or concurrent:    *)
(* deleteUser soft-deletes a user only when the user owns no active row at *)
(* the moment of the soft-delete.                                          *)
(***************************************************************************)
C29_ActiveRowsHaveActiveCreators ==
    \A t \in Tables : \A x \in DOMAIN Db[t] :
        Db[t][x].deletedAt = NULL => UserFound(Db[t][x].createdBy)

(***************************************************************************)
(* C30. When updateRolePermissions(role, P) commits, the role's grants are *)
(* exactly the pairs of P the permissions table holds: every earlier grant *)
(* not in P is gone, a pair the table does not hold is dropped without an  *)
(* error, and the grants of every other role are as they were.             *)
(***************************************************************************)
\* Request s is an updateRolePermissions whose COMMIT this step is.
GrantsCommitted(s) ==
    /\ inflight[s].op = "updateRolePermissions"
    /\ inflight[s].pc = "commit"
    /\ inflight'[s].pc = "done" /\ inflight'[s].res.status = 200

C30_CommitLeavesExactlyTheKnownPairs ==
    [][\A s \in DOMAIN inflight :
          GrantsCommitted(s)
              => rolePermissions' =
                    [rolePermissions EXCEPT
                        ![inflight[s].role] = inflight[s].grants \cap AllGrants]]_vars

====
